---------------------------- MODULE Spec2Model ----------------------------
(***************************************************************************)
(* A model of the Cassandrust node: the partitioner (token ring), the      *)
(* gossip manager, the coordinator request path with hinted handoff and    *)
(* read repair, and the local table store.                                 *)
(*                                                                         *)
(* The subsystems are checked under separate specifications that share the *)
(* variables below; a specification leaves the variables of the other      *)
(* subsystems at their idle values.                                        *)
(***************************************************************************)
EXTENDS Integers, Sequences, FiniteSets, TLC

VARIABLES
    config,       \* cassandra.json: the sequence of Node records, in ring order
    hashOf,       \* murmur3_x64_128(key, 0) as i64, per key (an uninterpreted table)
    key,          \* the key the nodes of the ring specification look up
    lookup,       \* per node: the result of its Partitioner::get_nodes(key), or None
    up,           \* per node: whether the node is reachable and running
    self_hb,      \* per node: GossipManager.self_node.last_heartbeat
    peers,        \* per node: GossipManager.peers, a Peer record per peer identity
    probe,        \* per node and peer: the gossip_to_peer thread of the current tick
    handler,      \* per node and sender: the handle_gossip thread serving a SYN
    syns,         \* SYN frames written to a connection and not yet read
    acks,         \* ACK frames written to a connection and not yet read
    now,          \* the number of client requests accepted so far; the clock
    store,        \* per node: the rows of the table, in file order
    hints,        \* per node and peer: the lines of hints/<peer>.txt, or None
    req,          \* the client connection being served, with its coordinator's locals
    resp,         \* what the coordinator's last step wrote to its client or dispatched
    flush,        \* per node and peer: the handle_hinted_handoff call in progress
    wire,         \* internode frames written to a connection and not yet processed
    hist,         \* history: what became of each hint, reads since the last change
    fs,           \* the table directory of a node: table.csv and table.tmp
    locks,        \* the RwLock of the node's Context and the RwLock of the table
    thr,          \* per connection thread: the statement it executes and where it is
    oplog,        \* history: the statements in the order of their commit points
    csv,          \* the bytes of table.csv of the table the row operations use
    tmpcsv,       \* the bytes of table.tmp of that table, or None
    tally,        \* history: successful appends, rows removed by deletes
    outcome,      \* the std::io::Result of the last row operation
    conn,         \* per client connection: where its handle_connection thread is
    lvl,          \* the request of the four-node ring, with its coordinator's locals
    gtp,          \* one node's gossip ticks: its gossip_to_peer threads and hints files
    hdir,         \* one node's hints directory, by file name, with its flushes
    exe,          \* one coordinator's catalogue and table, with the reply to the last statement
    ddl,          \* the catalogues of the ring's nodes, with the CREATE or DROP in progress
    lk,           \* one node's RwLocks: the guards its threads hold and the code they have left
    rt,           \* one client write: the replica loop of its coordinator, and who executed it
    rp            \* one peer's hints file at a node, with the threads that flush it

ringVars == <<config, hashOf, key, lookup>>

gossipVars == <<up, self_hb, peers, probe, handler, syns, acks>>

\* the gossip state the coordinator specification does not use
gossipRest == <<self_hb, peers, probe, handler, syns, acks>>

clusterVars == <<now, store, hints, req, resp, flush, wire, hist>>

rowVars == <<csv, tmpcsv, tally, outcome>>

storeVars == <<fs, locks, thr, oplog, rowVars>>

connVars == <<conn>>

levelVars == <<lvl>>

probeVars == <<gtp>>

\* the variables of the specifications of single components that follow
laterVars == <<hdir, exe, ddl, lk, rt, rp>>

clientVars == <<connVars, levelVars, probeVars, laterVars>>

\* what the ring, gossip and coordinator actions leave alone
otherVars == <<storeVars, clientVars>>

vars == <<ringVars, gossipVars, clusterVars, otherVars>>

\* what the gossip actions leave alone
notGossip == <<ringVars, clusterVars, otherVars>>

LaterIdle ==
    /\ hdir = <<>>
    /\ exe = <<>>
    /\ ddl = <<>>
    /\ lk = <<>>
    /\ rt = <<>>
    /\ rp = <<>>

(***************************************************************************)
(* Bounds.  The signed 64-bit token space is scaled to MinToken..MaxToken, *)
(* keeping the asymmetry of two's complement (MIN = -MAX - 1).             *)
(***************************************************************************)
MaxToken == 1

MaxRing == 4

\* the number of gossip ticks of a run, all nodes together
MaxTicks == 2

\* the number of nodes that are down at the same time
MaxDown == 1

\* three replicas per key; the clusters below are rings of exactly that many nodes
ReplicationFactor == 3

MinToken == -MaxToken - 1

Tokens == MinToken..MaxToken

\* partitioner/murmur3.rs: the sentinel key of CREATE TABLE / DROP TABLE
ALL_NODES == "ALL_NODES"

Keys == {ALL_NODES, "k1"}

\* an Option is a set with at most one element
None == {}

Some(x) == {x}

Unwrap(o) == CHOOSE x \in o : TRUE

\* std::io::Result<Vec<&Node>>
Ok(nodes) == [err |-> "", nodes |-> nodes]

Err(msg) == [err |-> msg, nodes |-> <<>>]

(***************************************************************************)
(* Ring configurations: n token ranges [start, end] that are pairwise      *)
(* disjoint and cover Tokens, listed in any ring order.                    *)
(***************************************************************************)
RECURSIVE SegmentsFrom(_, _)
SegmentsFrom(start, cuts) ==
    IF cuts = {}
    THEN << [start |-> start, end |-> MaxToken] >>
    ELSE LET c == CHOOSE x \in cuts : \A y \in cuts : x <= y
         IN  << [start |-> start, end |-> c - 1] >> \o SegmentsFrom(c, cuts \ {c})

Node(i, range) ==
    [ip_address |-> i, port |-> 9042, token_range |-> range]

RingConfigs ==
    UNION { { [i \in 1..n |-> Node(i, SegmentsFrom(MinToken, cuts)[p[i]])] :
                p \in Permutations(1..n),
                cuts \in { c \in SUBSET ((MinToken + 1)..MaxToken) : Cardinality(c) = n - 1 } } :
            n \in 1..MaxRing }

Disjoint(cfg) ==
    \A i, j \in 1..Len(cfg) :
        i # j => \/ cfg[i].token_range.end < cfg[j].token_range.start
                 \/ cfg[j].token_range.end < cfg[i].token_range.start

Covers(cfg) ==
    \A t \in Tokens :
        \E i \in 1..Len(cfg) :
            cfg[i].token_range.start <= t /\ t <= cfg[i].token_range.end

(***************************************************************************)
(* Partitioner::read_config: every node loads the same file and finds      *)
(* itself in it.                                                           *)
(***************************************************************************)
read_config(cfg, ip) ==
    [ring |-> cfg,
     self_node |-> cfg[CHOOSE i \in 1..Len(cfg) : cfg[i].ip_address = ip]]

\* the first index of the ring whose range contains hash, or -1
FoundIndex(ring, hash) ==
    LET hits == { i \in 1..Len(ring) :
                    hash >= ring[i].token_range.start /\ hash <= ring[i].token_range.end }
    IN  IF hits = {} THEN -1
        ELSE (CHOOSE i \in hits : \A j \in hits : i <= j) - 1

\* get_nodes without the wrap-around of the successor index
GetNodesNoWrap(p, k) ==
    IF k = ALL_NODES THEN Ok(p.ring)
    ELSE LET found == FoundIndex(p.ring, hashOf[k])
         IN  IF found = -1 THEN Err("Node not found")
             ELSE Ok([o \in 1..3 |->
                     p.ring[IF found + o <= Len(p.ring) THEN found + o ELSE Len(p.ring)]])

(***************************************************************************)
(* Partitioner::get_nodes.  found is the 0-based index of the code; the    *)
(* result is the owner followed by ring[(found + offset) % len] for        *)
(* offset 1 and 2.                                                         *)
(***************************************************************************)
get_nodes(p, k) ==
    IF k = ALL_NODES THEN Ok(p.ring)
    ELSE LET found == FoundIndex(p.ring, hashOf[k])
         IN  IF found = -1 THEN Err("Node not found")
             ELSE Ok([o \in 1..3 |->
                     IF o = 1 THEN p.ring[found + 1]
                     ELSE p.ring[((found + (o - 1)) % Len(p.ring)) + 1]])

is_me(p, node) == node.ip_address = p.self_node.ip_address

\* the gossip variables of a specification that runs no gossip
StoreIdle ==
    /\ fs = <<>>
    /\ locks = <<>>
    /\ thr = <<>>
    /\ oplog = <<>>
    /\ csv = <<>>
    /\ tmpcsv = {}
    /\ tally = <<>>
    /\ outcome = ""
    /\ conn = <<>>
    /\ lvl = <<>>
    /\ gtp = <<>>
    /\ LaterIdle

ClusterIdle ==
    /\ now = 0
    /\ store = <<>>
    /\ hints = <<>>
    /\ req = <<>>
    /\ resp = <<>>
    /\ flush = <<>>
    /\ wire = {}
    /\ hist = <<>>

GossipIdle ==
    /\ up = <<>>
    /\ self_hb = <<>>
    /\ peers = <<>>
    /\ probe = <<>>
    /\ handler = <<>>
    /\ syns = {}
    /\ acks = {}

(***************************************************************************)
(* The ring specification: a configuration is loaded, and the nodes look   *)
(* the key up, each with its own Partitioner.                              *)
(***************************************************************************)
RingInit ==
    /\ config \in RingConfigs
    /\ hashOf \in [Keys -> Tokens]
    /\ key \in Keys
    /\ lookup = [n \in 1..Len(config) |-> None]
    /\ GossipIdle
    /\ ClusterIdle
    /\ StoreIdle

RingLookup(n) ==
    /\ lookup[n] = None
    /\ lookup' = [lookup EXCEPT ![n] =
                    Some(get_nodes(read_config(config, config[n].ip_address), key))]
    /\ UNCHANGED <<config, hashOf, key, gossipVars, clusterVars, otherVars>>

RingNext == \E n \in 1..Len(config) : RingLookup(n)

SpecRing == RingInit /\ [][RingNext]_vars

\* the ring index (1-based) of the node whose range contains the hash of k
Owner(cfg, k) ==
    CHOOSE i \in 1..Len(cfg) :
        cfg[i].token_range.start <= hashOf[k] /\ hashOf[k] <= cfg[i].token_range.end

\* the owner followed by its two successors in ring order, wrapping
OwnerAndSuccessors(cfg, k) ==
    LET n == Len(cfg)
        i == Owner(cfg, k)
    IN  << cfg[i], cfg[(i % n) + 1], cfg[((i + 1) % n) + 1] >>

ThreeDistinct(nodes) ==
    /\ Len(nodes) = 3
    /\ \A i, j \in 1..3 : i # j => nodes[i] # nodes[j]

ReplicaListIsRight(n) ==
    LET r == Unwrap(lookup[n])
    IN  /\ r.err = ""
        /\ ThreeDistinct(r.nodes)
        /\ r.nodes = OwnerAndSuccessors(config, key)

(***************************************************************************)
(* C2 as claimed: for every ring whose ranges are disjoint and cover the   *)
(* token space and every key, the replica list a node computes is three    *)
(* distinct nodes, the owner of hash(key) and its two successors, and all  *)
(* nodes compute the same list.                                            *)
(***************************************************************************)
C2_AnyRingAnyKey ==
    (Disjoint(config) /\ Covers(config)) =>
        \A n \in 1..Len(config) :
            lookup[n] # None =>
                /\ ReplicaListIsRight(n)
                /\ \A m \in 1..Len(config) : lookup[m] # None => lookup[m] = lookup[n]

(***************************************************************************)
(* C2 amended: the same, for a ring of at least three nodes and a key      *)
(* other than the reserved string "ALL_NODES".                             *)
(***************************************************************************)
C2_ThreeReplicas ==
    (Disjoint(config) /\ Covers(config) /\ Len(config) >= 3 /\ key # ALL_NODES) =>
        \A n \in 1..Len(config) :
            lookup[n] # None =>
                /\ ReplicaListIsRight(n)
                /\ \A m \in 1..Len(config) : lookup[m] # None => lookup[m] = lookup[n]

\* two nodes of a four-node ring have looked up a key owned by the last ring entry
C2_Witness ==
    /\ Disjoint(config) /\ Covers(config)
    /\ Len(config) = 4 /\ key # ALL_NODES
    /\ Owner(config, key) = 4
    /\ lookup[1] # None /\ lookup[3] # None

(***************************************************************************)
(* Gossip.  A cluster of ReplicationFactor nodes; the peer tables are      *)
(* keyed by node identity.                                                 *)
(***************************************************************************)
Nodes == 1..ReplicationFactor

\* a cassandra.json of three nodes, in token order
ClusterConfig == [i \in Nodes |-> Node(i, SegmentsFrom(MinToken, {0, MaxToken})[i])]

\* the internode listener of a node: 127.0.0.1:port + 1 (main.rs)
InternodePort(n) == ClusterConfig[n].port + 1

\* inc::gossip::peer::Peer; known is membership in the peers map
Peer(port, hb, alive) ==
    [known |-> TRUE, port |-> port, last_heartbeat |-> hb, alive |-> alive]

NoPeer == [known |-> FALSE, port |-> 0, last_heartbeat |-> 0, alive |-> FALSE]

NoPeers == [q \in Nodes |-> NoPeer]

\* GossipManager::new: a peer per node of the configuration except self
NewGossipManagerPeers(n, configured) ==
    [q \in Nodes |->
        IF q \in configured /\ q # n
        THEN Peer(ClusterConfig[q].port + 1, 0, FALSE)
        ELSE NoPeer]

\* the configurations the nodes start from: the file of node 1 may predate
\* the last node
StartConfigs ==
    { c \in [Nodes -> SUBSET Nodes] :
        /\ c[1] \in {Nodes, Nodes \ {ReplicationFactor}}
        /\ \A n \in Nodes \ {1} : c[n] = Nodes }

IdleProbe == [pc |-> "idle", conn |-> 0, new_peers |-> NoPeers]

IdleHandler ==
    [pc |-> "idle", conn |-> 0, heartbeat |-> 0,
     send_peers |-> NoPeers, new_peers |-> NoPeers]

Known(table) == { q \in Nodes : table[q].known }

\* peers.choose_multiple(rng, 3): any 3 of the peers, or all of them
ChooseMultiple(S, amount) ==
    { sel \in SUBSET S :
        Cardinality(sel) = IF Cardinality(S) < amount THEN Cardinality(S) ELSE amount }

\* the relayed state of a known peer, applied whatever the stored heartbeat
ApplyRelayedAlways(current, relayed) ==
    [current EXCEPT !.last_heartbeat = relayed.last_heartbeat,
                    !.alive = relayed.alive]

\* the monotonicity rule of both handlers: a relayed Peer replaces the
\* stored heartbeat and alive flag only if its heartbeat is greater
ApplyRelayed(current, relayed) ==
    IF current.last_heartbeat < relayed.last_heartbeat
    THEN [current EXCEPT !.last_heartbeat = relayed.last_heartbeat,
                         !.alive = relayed.alive]
    ELSE current

\* the table without the new peers
keep_peers(table, new_peers) == table

\* add_peer followed by the copy of the relayed heartbeat and alive flag
InsertPeers(table, new_peers) ==
    [q \in Nodes |->
        IF new_peers[q].known
        THEN Peer(new_peers[q].port, new_peers[q].last_heartbeat, new_peers[q].alive)
        ELSE table[q]]

GossipInit ==
    /\ up = [n \in Nodes |-> TRUE]
    /\ self_hb = [n \in Nodes |-> 0]
    /\ \E c \in StartConfigs :
          peers = [n \in Nodes |-> NewGossipManagerPeers(n, c[n])]
    /\ probe = [n \in Nodes |-> [q \in Nodes |-> IdleProbe]]
    /\ handler = [n \in Nodes |-> [q \in Nodes |-> IdleHandler]]
    /\ syns = {}
    /\ acks = {}

RECURSIVE SumOver(_, _)
SumOver(f, S) ==
    IF S = {} THEN 0
    ELSE LET x == CHOOSE y \in S : TRUE IN f[x] + SumOver(f, S \ {x})

TotalTicks == SumOver(self_hb, Nodes)

\* the Syn gossip_to_peer builds from the tables under manager.read()
BuildSyn(n, q) ==
    [sender |-> n, to |-> q, port |-> ClusterConfig[n].port,
     heartbeat |-> self_hb[n] + 1, known_peers |-> peers[n]]

\* whether the address stored for peer q at n is q's internode listener
ReachesInternode(n, q) == peers[n][q].port = InternodePort(q)

(***************************************************************************)
(* gossip_starter: one iteration of the loop, with the start of each       *)
(* gossip_to_peer thread it spawns: the heartbeat is incremented, up to    *)
(* three peers are chosen, and to each the Syn is built, the connection    *)
(* made and the frame sent.  A failing connect or send marks the peer      *)
(* dead.  A connection is identified by the heartbeat it carries.          *)
(***************************************************************************)
GossipTick(n) ==
    /\ up[n]
    /\ \A q \in Nodes : probe[n][q].pc = "idle"
    /\ TotalTicks < MaxTicks
    /\ self_hb' = [self_hb EXCEPT ![n] = @ + 1]
    /\ \E selected \in ChooseMultiple(Known(peers[n]), 3) :
          /\ probe' = [probe EXCEPT ![n] =
                        [q \in Nodes |->
                            IF q \in selected /\ up[q]
                            THEN [IdleProbe EXCEPT !.pc = "wait", !.conn = self_hb[n] + 1]
                            ELSE IdleProbe]]
          /\ peers' = [peers EXCEPT ![n] =
                        [q \in Nodes |->
                            IF q \in selected /\ ~up[q]
                            THEN [@[q] EXCEPT !.alive = FALSE]
                            ELSE @[q]]]
          /\ syns' = syns \cup { BuildSyn(n, q) :
                                   q \in { r \in selected : up[r] /\ ReachesInternode(n, r) } }
    /\ UNCHANGED <<notGossip, up, handler, acks>>

MarkDead(n, q) ==
    peers' = [peers EXCEPT ![n][q].alive = FALSE]

\* gossip_to_peer: the read of the Ack times out or fails: the peer does
\* not answer within 3 s, or what was reached is no internode listener
ProbeTimeout(n, q) ==
    /\ up[n] /\ probe[n][q].pc = "wait"
    /\ ~up[q] \/ ~ReachesInternode(n, q)
    /\ MarkDead(n, q)
    /\ probe' = [probe EXCEPT ![n][q] = IdleProbe]
    /\ acks' = { a \in acks : ~(a.to = n /\ a.from = q) }
    /\ UNCHANGED <<notGossip, up, self_hb, handler, syns>>

\* gossip_to_peer: the Ack arrives; the block under manager.read()
ProbeAck(n, q) ==
    /\ up[n] /\ probe[n][q].pc = "wait"
    /\ \E a \in acks :
        /\ a.to = n /\ a.from = q /\ a.conn = probe[n][q].conn
        /\ LET direct == [peers[n] EXCEPT ![q].alive = TRUE,
                                          ![q].last_heartbeat = a.heartbeat]
               relayed == { r \in Known(a.update_peers) : r # n }
               new_peers == [r \in Nodes |->
                               IF r \in relayed /\ ~direct[r].known
                               THEN a.update_peers[r] ELSE NoPeer]
           IN  /\ peers' = [peers EXCEPT ![n] =
                              [r \in Nodes |->
                                  IF r \in relayed /\ direct[r].known
                                  THEN ApplyRelayed(direct[r], a.update_peers[r])
                                  ELSE direct[r]]]
               /\ probe' = [probe EXCEPT ![n][q] =
                              IF Known(new_peers) = {}
                              THEN IdleProbe
                              ELSE [pc |-> "add", conn |-> 0, new_peers |-> new_peers]]
        /\ acks' = acks \ {a}
    /\ UNCHANGED <<notGossip, up, self_hb, handler, syns>>

\* gossip_to_peer: the new peers are inserted under manager.write()
ProbeAdd(n, q) ==
    /\ up[n] /\ probe[n][q].pc = "add"
    /\ peers' = [peers EXCEPT ![n] = InsertPeers(@, probe[n][q].new_peers)]
    /\ probe' = [probe EXCEPT ![n][q] = IdleProbe]
    /\ UNCHANGED <<notGossip, up, self_hb, handler, syns, acks>>

\* handle_gossip: the block under manager.read()
HandleSyn(r) ==
    /\ up[r]
    /\ \E m \in syns :
        /\ m.to = r
        /\ handler[r][m.sender].pc = "idle"
        /\ LET s == m.sender
               direct == IF peers[r][s].known
                         THEN [peers[r] EXCEPT ![s].last_heartbeat = m.heartbeat,
                                               ![s].alive = TRUE]
                         ELSE peers[r]
               send_peers == [q \in Nodes |->
                                IF direct[q].known /\ ~m.known_peers[q].known
                                THEN direct[q] ELSE NoPeer]
               relayed == { q \in Known(m.known_peers) : q # r }
               new_peers == [q \in Nodes |->
                               IF q = s /\ ~peers[r][s].known
                               THEN Peer(m.port, m.heartbeat, TRUE)
                               ELSE IF q \in relayed /\ ~direct[q].known
                               THEN m.known_peers[q]
                               ELSE NoPeer]
           IN  /\ peers' = [peers EXCEPT ![r] =
                              [q \in Nodes |->
                                  IF q \in relayed /\ direct[q].known
                                  THEN ApplyRelayed(direct[q], m.known_peers[q])
                                  ELSE direct[q]]]
               /\ handler' = [handler EXCEPT ![r][s] =
                                [pc |-> IF Known(new_peers) = {} THEN "ack" ELSE "add",
                                 conn |-> m.heartbeat,
                                 heartbeat |-> self_hb[r],
                                 send_peers |-> send_peers,
                                 new_peers |-> new_peers]]
        /\ syns' = syns \ {m}
    /\ UNCHANGED <<notGossip, up, self_hb, probe, acks>>

\* handle_gossip: the new peers are inserted under manager.write()
HandlerAdd(r, s) ==
    /\ up[r] /\ handler[r][s].pc = "add"
    /\ peers' = [peers EXCEPT ![r] = InsertPeers(@, handler[r][s].new_peers)]
    /\ handler' = [handler EXCEPT ![r][s].pc = "ack", ![r][s].new_peers = NoPeers]
    /\ UNCHANGED <<notGossip, up, self_hb, probe, syns, acks>>

\* handle_gossip: the Ack is written to the connection of the SYN; it is
\* read only if the prober still waits on that connection
HandlerAck(r, s) ==
    /\ up[r] /\ handler[r][s].pc = "ack"
    /\ acks' = IF probe[s][r].pc = "wait" /\ probe[s][r].conn = handler[r][s].conn
               THEN acks \cup { [from |-> r, to |-> s, conn |-> handler[r][s].conn,
                                 heartbeat |-> handler[r][s].heartbeat,
                                 update_peers |-> handler[r][s].send_peers] }
               ELSE acks
    /\ handler' = [handler EXCEPT ![r][s] = IdleHandler]
    /\ UNCHANGED <<notGossip, up, self_hb, peers, probe, syns>>

\* the node stops answering (the process is stopped, or cut off)
GoDown(n) ==
    /\ up[n]
    /\ Cardinality({ q \in Nodes : ~up[q] }) < MaxDown
    /\ up' = [up EXCEPT ![n] = FALSE]
    /\ UNCHANGED <<notGossip, self_hb, peers, probe, handler, syns, acks>>

GoUp(n) ==
    /\ ~up[n]
    /\ up' = [up EXCEPT ![n] = TRUE]
    /\ UNCHANGED <<notGossip, self_hb, peers, probe, handler, syns, acks>>

GossipNext ==
    \/ \E n \in Nodes : GossipTick(n)
    \/ \E n, q \in Nodes : ProbeTimeout(n, q)
    \/ \E n, q \in Nodes : ProbeAck(n, q)
    \/ \E n, q \in Nodes : ProbeAdd(n, q)
    \/ \E r \in Nodes : HandleSyn(r)
    \/ \E r, s \in Nodes : HandlerAdd(r, s)
    \/ \E r, s \in Nodes : HandlerAck(r, s)
    \/ \E n \in Nodes : GoDown(n)
    \/ \E n \in Nodes : GoUp(n)

RingIdle ==
    /\ config = ClusterConfig
    /\ hashOf = [k \in Keys |-> 0]
    /\ key = "k1"
    /\ lookup = [n \in Nodes |-> None]

\* the cluster at start: every node has built its GossipManager
GossipStart ==
    /\ GossipInit
    /\ RingIdle
    /\ ClusterIdle
    /\ StoreIdle

SpecGossip == GossipStart /\ [][GossipNext]_vars

(***************************************************************************)
(* C3: at every node, the last_heartbeat stored for a peer never           *)
(* decreases, whatever the interleaving of ticks, ACKs, SYNs and           *)
(* insertions of discovered peers.                                         *)
(***************************************************************************)
C3_HeartbeatNeverDecreases ==
    [][\A n, q \in Nodes :
          (peers[n][q].known /\ peers'[n][q].known) =>
              peers'[n][q].last_heartbeat >= peers[n][q].last_heartbeat]_vars


(***************************************************************************)
(* The coordinator.  One table, whose columns are the primary key, the     *)
(* data columns a and b, and last_update; every query addresses the row    *)
(* of key "k1".  A row is the record of its non-key columns.               *)
(***************************************************************************)
TableCols == {"a", "b", "last_update"}

\* the cell written for a column the INSERT does not give (tables.rs)
NULL == 0

\* the order of the strings of the last column: a timestamp is later than
\* an earlier one, and "NULL" sorts after every timestamp
Later(x, y) == IF x = NULL THEN y # NULL ELSE y # NULL /\ x > y

Last(row) == row[Len(row)]

\* query::Query: the statement with its column map or projection
Insert(row) == [op |-> "INSERT", row |-> row, cols |-> <<>>]

Update(row) == [op |-> "UPDATE", row |-> row, cols |-> <<>>]

Select(cols) == [op |-> "SELECT", row |-> <<>>, cols |-> cols]

is_not_select(q) == q.op # "SELECT"

add_col(q, col, val) ==
    IF q.op = "SELECT"
    THEN [q EXCEPT !.cols = Append(@, col)]
    ELSE [q EXCEPT !.row = [c \in (DOMAIN q.row) \cup {col} |->
                               IF c = col THEN val ELSE q.row[c]]]

remove_col(q, col) ==
    IF q.op = "SELECT"
    THEN LET at == { i \in DOMAIN q.cols : q.cols[i] = col }
             idx == CHOOSE i \in at : \A j \in at : i <= j
         IN  IF at = {} THEN q
             ELSE [q EXCEPT !.cols = SubSeq(@, 1, idx - 1) \o SubSeq(@, idx + 1, Len(@))]
    ELSE [q EXCEPT !.row = [c \in (DOMAIN q.row) \ {col} |-> q.row[c]]]

\* Table::append_to_table: a line with NULL for the columns not given
append_to_table(rows, data) ==
    Append(rows, [c \in TableCols |-> IF c \in DOMAIN data THEN data[c] ELSE NULL])

\* Table::update_table with the visitor of UPDATE: every row of the key
\* takes the columns given and keeps the others
update_table(rows, data) ==
    [i \in DOMAIN rows |->
        [c \in TableCols |-> IF c \in DOMAIN data THEN data[c] ELSE rows[i][c]]]

\* order_rows: no row is None, else the projection of each row
order_rows(rows, to_print) ==
    IF rows = <<>> THEN None
    ELSE Some([i \in DOMAIN rows |-> [j \in DOMAIN to_print |-> rows[i][to_print[j]]]])

\* Query::process on the table of a node: the new table and the result
process(q, rows) ==
    CASE q.op = "INSERT" -> [table |-> append_to_table(rows, q.row), res |-> None]
      [] q.op = "UPDATE" -> [table |-> update_table(rows, q.row), res |-> None]
      [] q.op = "SELECT" -> [table |-> rows, res |-> order_rows(rows, q.cols)]

ConsistencyLevels == {"Any", "One", "Two", "Three", "Quorum", "All"}

to_u16(cl) ==
    CASE cl = "Any" -> 0 [] cl = "One" -> 1 [] cl = "Two" -> 2
      [] cl = "Three" -> 3 [] cl = "Quorum" -> 4 [] cl = "All" -> 5

\* the condition of client.rs under which the coordinator answers ERROR
\* "Not enough nodes responded to query"
NotEnoughNodes(n_acks, cl) ==
    \/ n_acks < to_u16(cl) /\ cl # "Quorum" /\ cl # "All"
    \/ n_acks < 3 /\ cl = "All"

\* the outcome of a computation that may panic
Returns(x) == [panic |-> FALSE, value |-> x]

Panics == [panic |-> TRUE, value |-> None]

\* responses.into_iter().filter_map(|response| response)
RECURSIVE FilterSome(_)
FilterSome(responses) ==
    IF responses = <<>> THEN <<>>
    ELSE (IF Head(responses) = None THEN <<>> ELSE <<Unwrap(Head(responses))>>)
            \o FilterSome(Tail(responses))

\* the loop of compare_responses that keeps, per row index, the row with
\* the latest last column; res[idx] panics past the rows of the first response
RECURSIVE LatestRow(_, _, _, _)
LatestRow(cur, valid, k, idx) ==
    IF k > Len(valid) THEN cur
    ELSE LatestRow(IF idx <= Len(valid[k]) /\ Later(Last(valid[k][idx]), Last(cur))
                   THEN valid[k][idx] ELSE cur,
                   valid, k + 1, idx)

MergeLatest(valid) ==
    IF \E k \in 2..Len(valid) : Len(valid[k]) > Len(valid[1])
    THEN Panics
    ELSE Returns(Some([idx \in DOMAIN valid[1] |-> LatestRow(valid[1][idx], valid, 2, idx)]))

\* the first response that has been seen target times
FirstCounted(valid, target) ==
    LET hits == { k \in DOMAIN valid :
                    Cardinality({ j \in 1..k : valid[j] = valid[k] }) >= target }
    IN  IF hits = {} THEN None
        ELSE Some(valid[CHOOSE k \in hits : \A j \in hits : k <= j])

compare_responses(responses, cl) ==
    LET valid == FilterSome(responses)
    IN  IF valid = <<>> THEN Returns(None)
        ELSE CASE cl \in {"Any", "One"} -> Returns(Some(valid[1]))
               [] cl \in {"Two", "Three", "Quorum"} ->
                    LET target == IF cl = "Quorum" THEN (Len(valid) \div 2) + 1
                                  ELSE to_u16(cl)
                        counted == FirstCounted(valid, target)
                    IN  IF counted # None THEN Returns(counted) ELSE MergeLatest(valid)
               [] cl = "All" ->
                    IF \A k \in DOMAIN valid : valid[k] = valid[1]
                    THEN Returns(Some(valid[1]))
                    ELSE MergeLatest(valid)

\* rows sent as compare_responses returned them
keep_last_update(rows) == rows

remove_last_update(rows) ==
    [i \in DOMAIN rows |-> SubSeq(rows[i], 1, Len(rows[i]) - 1)]

\* get_nodes_updates: per response, the winning rows to write to its node
RECURSIVE MaxRow(_, _, _, _)
MaxRow(max, responses, k, i) ==
    IF k > Len(responses) THEN max
    ELSE MaxRow(IF Later(Last(responses[k][i]), Last(max)) THEN responses[k][i] ELSE max,
                responses, k + 1, i)

get_nodes_updates(responses) ==
    IF \E k \in DOMAIN responses : Len(responses[k]) < Len(responses[1])
    THEN Panics
    ELSE LET max == [i \in DOMAIN responses[1] |-> MaxRow(responses[1][i], responses, 1, i)]
         IN  Returns([idx \in DOMAIN responses |->
                        SelectSeq(max, LAMBDA m : Last(responses[idx][1]) # Last(m))])


(***************************************************************************)
(* The cluster of the coordinator specification: the three nodes of        *)
(* ClusterConfig, each with its table and its hints directory.  Clients    *)
(* are served one at a time.                                               *)
(***************************************************************************)
\* the number of client requests of a run
MaxRequests == 3

\* the number of nodes that are unreachable at the same time
MaxUnreachable == 2

\* the number of times a node stops in a run
MaxStops == 2

\* the queries of the client that sends request number id: the values it
\* writes are its own
ClientQueries(id) ==
    { Insert([a |-> id, b |-> id]), Update([a |-> id]), Select(<<"a", "b">>) }

IdleReq ==
    [pc |-> "idle", coord |-> 0, orig |-> Select(<<>>), query |-> Select(<<>>),
     nodes |-> <<>>, idx |-> 0, all_rows |-> <<>>, acks |-> 0, cl |-> "",
     failed |-> {}, hinted |-> {}, own |-> <<>>]

\* what the client got: a RESULT or ERROR frame, or a closed connection
\* (PANIC: the coordinator thread died; LOST: the coordinator stopped);
\* REPAIR: what handle_read_repair did after the RESULT
NoResp ==
    [kind |-> "NONE", rows |-> None, op |-> "", id |-> 0, cl |-> "", acks |-> 0,
     failed |-> {}, hinted |-> {}, own |-> <<>>, repair |-> "", dispatched |-> {}]

Answer(kind, rows, cl) ==
    [kind |-> kind, rows |-> rows, op |-> req.query.op, id |-> now, cl |-> cl,
     acks |-> req.acks, failed |-> req.failed, hinted |-> req.hinted,
     own |-> req.own, repair |-> "", dispatched |-> {}]

IdleFlush == [pc |-> "idle", queries |-> <<>>, addr |-> ""]

\* a line of hints/<to>.txt at node from
Hint(from, to, q) == [from |-> from, to |-> to, q |-> q]

NoHistory ==
    [recorded |-> {}, sent |-> {}, applied |-> {}, dropped |-> {},
     reads |-> 0, committed |-> None, stops |-> 0]

Range(f) == { f[i] : i \in DOMAIN f }

ClusterInit ==
    /\ up = [n \in Nodes |-> TRUE]
    /\ self_hb = <<>> /\ peers = <<>> /\ probe = <<>> /\ handler = <<>>
    /\ syns = {} /\ acks = {}
    /\ RingIdle
    /\ StoreIdle
    /\ now = 0
    /\ store = [n \in Nodes |-> <<>>]
    /\ hints = [c \in Nodes |-> [p \in Nodes |-> None]]
    /\ req = IdleReq
    /\ resp = NoResp
    /\ flush = [c \in Nodes |-> [p \in Nodes |-> IdleFlush]]
    /\ wire = {}
    /\ hist = NoHistory

\* a hints file that grows at its head instead of its end
prepend_hint(c, p, q) ==
    [hints EXCEPT ![c][p] = Some(<<q>> \o (IF @ = None THEN <<>> ELSE Unwrap(@)))]

\* hinted.rs add_hint: the line is appended, the file created if missing
add_hint(c, p, q) ==
    [hints EXCEPT ![c][p] = Some((IF @ = None THEN <<>> ELSE Unwrap(@)) \o <<q>>)]

\* the node the loop of handle_connection is at
Target == req.nodes[req.idx].ip_address

Partitioner(c) == read_config(config, c)

(***************************************************************************)
(* client.rs handle_connection, up to the loop: STARTUP, READY, the QUERY  *)
(* frame, get_nodes and add_col("last_update", now).                       *)
(***************************************************************************)
ClientQuery(c, q) ==
    /\ up[c] /\ req.pc = "idle"
    /\ now < MaxRequests
    /\ now' = now + 1
    /\ req' = [IdleReq EXCEPT !.pc = "loop", !.coord = c, !.orig = q,
                              !.query = add_col(q, "last_update", now + 1),
                              !.nodes = get_nodes(Partitioner(c), "k1").nodes,
                              !.idx = 1,
                              !.own = [n \in Nodes |-> None]]
    /\ resp' = NoResp
    /\ hist' = IF is_not_select(q)
               THEN [hist EXCEPT !.reads = 0, !.committed = None]
               ELSE hist
    /\ UNCHANGED <<ringVars, otherVars, gossipVars, store, hints, flush, wire>>

\* the replica is the coordinator: the query is processed under ctx.write()
CoordLocal ==
    /\ req.pc = "loop" /\ req.idx <= Len(req.nodes)
    /\ is_me(Partitioner(req.coord), req.nodes[req.idx])
    /\ LET out == process(req.query, store[req.coord])
       IN  /\ store' = [store EXCEPT ![req.coord] = out.table]
           /\ req' = [req EXCEPT !.all_rows = Append(@, out.res),
                                 !.acks = @ + 1, !.idx = @ + 1,
                                 !.own[req.coord] = out.res]
    /\ UNCHANGED <<ringVars, otherVars, gossipVars, now, hints, resp, flush, wire, hist>>

\* TcpStream::connect fails: a hint is added unless the query is a SELECT
CoordConnectFail ==
    /\ req.pc = "loop" /\ req.idx <= Len(req.nodes)
    /\ ~is_me(Partitioner(req.coord), req.nodes[req.idx])
    /\ ~up[Target]
    /\ IF is_not_select(req.query)
       THEN /\ hints' = add_hint(req.coord, Target, req.orig)
            /\ hist' = [hist EXCEPT !.recorded = @ \cup {Hint(req.coord, Target, req.orig)}]
            /\ req' = [req EXCEPT !.idx = @ + 1, !.failed = @ \cup {Target},
                                  !.hinted = @ \cup {Target}]
       ELSE /\ req' = [req EXCEPT !.idx = @ + 1, !.failed = @ \cup {Target}]
            /\ UNCHANGED <<hints, hist>>
    /\ UNCHANGED <<ringVars, otherVars, gossipVars, now, store, resp, flush, wire>>

\* TcpStream::connect succeeds
CoordConnect ==
    /\ req.pc = "loop" /\ req.idx <= Len(req.nodes)
    /\ ~is_me(Partitioner(req.coord), req.nodes[req.idx])
    /\ up[Target]
    /\ req' = [req EXCEPT !.pc = "connected"]
    /\ UNCHANGED <<ringVars, otherVars, gossipVars, now, store, hints, resp, flush, wire, hist>>

\* the Query frame is sent, the replica processes it (node.rs) and its
\* Result frame is read
CoordForward ==
    /\ req.pc = "connected" /\ up[Target]
    /\ LET out == process(req.query, store[Target])
       IN  /\ store' = [store EXCEPT ![Target] = out.table]
           /\ req' = [req EXCEPT !.pc = "loop",
                                 !.all_rows = Append(@, out.res),
                                 !.acks = @ + 1, !.idx = @ + 1,
                                 !.own[Target] = out.res]
    /\ UNCHANGED <<ringVars, otherVars, gossipVars, now, hints, resp, flush, wire, hist>>

\* the replica is gone after the connect: send_message(..).unwrap() panics
CoordSendFail ==
    /\ req.pc = "connected" /\ ~up[Target]
    /\ resp' = [Answer("PANIC", None, "") EXCEPT !.failed = @ \cup {Target}]
    /\ req' = IdleReq
    /\ UNCHANGED <<ringVars, otherVars, gossipVars, now, store, hints, flush, wire, hist>>


\* some replica stores the value of write number id
Written(id) == \E n \in Nodes : \E i \in DOMAIN store[n] : store[n][i].a = id

\* the reads that count towards convergence by read repair
RepairingLevels == {"Two", "Three", "Quorum", "All"}

ReadDone(h, cl, kind) ==
    IF req.query.op = "SELECT" /\ kind = "RESULT" /\ cl \in RepairingLevels
       /\ \A n \in Nodes : up[n]
    THEN [h EXCEPT !.reads = IF @ < MaxRequests THEN @ + 1 ELSE @]
    ELSE h

(***************************************************************************)
(* handle_connection after the loop: the consistency check on the acks,    *)
(* compare_responses, and the RESULT frame.  The level is that of the      *)
(* QUERY frame; nothing reads it before this point.                        *)
(***************************************************************************)
CoordRespond(cl) ==
    /\ req.pc = "loop" /\ req.idx > Len(req.nodes)
    /\ IF NotEnoughNodes(req.acks, cl)
       THEN /\ resp' = Answer("ERROR", None, cl)
            /\ req' = IdleReq
            /\ hist' = hist
       ELSE LET cmp == compare_responses(req.all_rows, cl)
            IN  IF cmp.panic
                THEN /\ resp' = Answer("PANIC", None, cl)
                     /\ req' = IdleReq
                     /\ hist' = hist
                ELSE IF cmp.value = None
                THEN /\ resp' = Answer("RESULT", None, cl)
                     /\ req' = IdleReq
                     /\ hist' = IF is_not_select(req.query)
                                THEN [hist EXCEPT !.committed =
                                        IF cl \in {"Quorum", "All"} /\ Written(now)
                                        THEN Some(now) ELSE None]
                                ELSE ReadDone(hist, cl, "RESULT")
                ELSE /\ resp' = Answer("RESULT", Some(remove_last_update(Unwrap(cmp.value))), cl)
                     /\ req' = [req EXCEPT !.pc = "repair", !.cl = cl]
                     /\ hist' = hist
    /\ UNCHANGED <<ringVars, otherVars, gossipVars, now, store, hints, flush, wire>>

\* the UPDATE read repair builds for a node: the projected columns and
\* last_update of the winning rows, a later SET of a column replacing an
\* earlier one
RepairQuery(cols, rows) ==
    Update([c \in Range(cols) |->
              Last(rows)[CHOOSE i \in DOMAIN cols : cols[i] = c]])

\* the indices of nodes the loop of handle_read_repair sends an UPDATE for:
\* updates[idx] is not empty; updates has an entry per response
RepairIndices(nodes, updates) ==
    { idx \in DOMAIN nodes : idx <= Len(updates) /\ updates[idx] # <<>> }

(***************************************************************************)
(* read_repair.rs handle_read_repair, called with the responses unwrapped. *)
(* The UPDATE is processed locally, or sent to the node's internode        *)
(* listener if the connect succeeds.                                       *)
(***************************************************************************)
CoordRepair ==
    /\ req.pc = "repair"
    /\ LET unwrapped == FilterSome(req.all_rows)
           upd == IF Len(unwrapped) < Len(req.all_rows) THEN Panics
                  ELSE get_nodes_updates(unwrapped)
       IN  IF upd.panic
           THEN /\ resp' = [Answer("REPAIR", None, req.cl) EXCEPT !.repair = "panic"]
                /\ UNCHANGED <<store, wire>>
           ELSE LET idxs == RepairIndices(req.nodes, upd.value)
                    target(i) == req.nodes[i].ip_address
                    q(i) == RepairQuery(req.query.cols, upd.value[i])
                    local == { i \in idxs : target(i) = req.coord }
                    remote == { i \in idxs : target(i) # req.coord /\ up[target(i)] }
                IN  /\ store' = [store EXCEPT ![req.coord] =
                                   IF local = {} THEN @
                                   ELSE process(q(CHOOSE i \in local : TRUE), @).table]
                    /\ wire' = wire \cup { [type |-> "Query", from |-> req.coord,
                                            to |-> target(i), queries |-> <<q(i)>>] : i \in remote }
                    /\ resp' = [Answer("REPAIR", None, req.cl) EXCEPT
                                  !.repair = IF Len(upd.value) < Len(req.nodes)
                                             THEN "panic" ELSE "done",
                                  !.dispatched = { target(i) : i \in local \cup remote }]
    /\ hist' = ReadDone(hist, req.cl, "RESULT")
    /\ req' = IdleReq
    /\ UNCHANGED <<ringVars, otherVars, gossipVars, now, hints, flush>>

\* node.rs handle_connection, a Query frame nobody waits the Result of
NodeQuery(n) ==
    /\ up[n]
    /\ \E f \in wire :
        /\ f.type = "Query" /\ f.to = n
        /\ store' = [store EXCEPT ![n] = process(f.queries[1], @).table]
        /\ wire' = wire \ {f}
    /\ resp' = NoResp
    /\ UNCHANGED <<ringVars, otherVars, gossipVars, now, hints, req, flush, hist>>


(***************************************************************************)
(* Hinted handoff.  handle_hinted_handoff is called at the end of          *)
(* gossip_to_peer with the address stored for the peer, the internode      *)
(* listener of the configuration, and at the end of handle_gossip with     *)
(* ip:port of the Syn, the port the sender serves its clients on.  Either  *)
(* call follows a frame read from the peer: the peer is up.                *)
(***************************************************************************)
HandoffAddresses == {"internode", "client"}

\* has_hints, and handle_hinted_handoff up to the connect: the file is read
FlushRead(c, p, addr) ==
    /\ c # p /\ up[c] /\ up[p]
    /\ flush[c][p].pc = "idle"
    /\ hints[c][p] # None
    /\ flush' = [flush EXCEPT ![c][p] =
                   [pc |-> "send", queries |-> Unwrap(hints[c][p]), addr |-> addr]]
    /\ hist' = [hist EXCEPT !.reads = 0]
    /\ resp' = NoResp
    /\ UNCHANGED <<ringVars, otherVars, gossipVars, now, store, hints, req, wire>>

\* the connect and the send of the Hinted frame.  A frame sent to the
\* client port is no native-protocol request: nothing is applied.
FlushSend(c, p) ==
    /\ up[c] /\ up[p]
    /\ flush[c][p].pc = "send"
    /\ flush' = [flush EXCEPT ![c][p].pc = "remove"]
    /\ IF flush[c][p].addr = "internode"
       THEN /\ wire' = wire \cup { [type |-> "Hinted", from |-> c, to |-> p,
                                    queries |-> flush[c][p].queries] }
            /\ hist' = [hist EXCEPT !.sent = @ \cup
                          { Hint(c, p, q) : q \in Range(flush[c][p].queries) }]
       ELSE UNCHANGED <<wire, hist>>
    /\ resp' = NoResp
    /\ UNCHANGED <<ringVars, otherVars, gossipVars, now, store, hints, req>>

\* the connect panics or the send fails: the file is left in place
FlushFail(c, p) ==
    /\ up[c] /\ ~up[p]
    /\ flush[c][p].pc = "send"
    /\ flush' = [flush EXCEPT ![c][p] = IdleFlush]
    /\ resp' = NoResp
    /\ UNCHANGED <<ringVars, otherVars, gossipVars, now, store, hints, req, wire, hist>>

\* std::fs::remove_file(node_hints)
FlushRemove(c, p) ==
    /\ up[c]
    /\ flush[c][p].pc = "remove"
    /\ hints' = [hints EXCEPT ![c][p] = None]
    /\ flush' = [flush EXCEPT ![c][p] = IdleFlush]
    /\ resp' = NoResp
    /\ UNCHANGED <<ringVars, otherVars, gossipVars, now, store, req, wire, hist>>

RECURSIVE ProcessAll(_, _)
ProcessAll(queries, rows) ==
    IF queries = <<>> THEN rows
    ELSE ProcessAll(Tail(queries), process(Head(queries), rows).table)

\* node.rs handle_connection, a Hinted frame: every query is processed
NodeHinted(n) ==
    /\ up[n]
    /\ \E f \in wire :
        /\ f.type = "Hinted" /\ f.to = n
        /\ store' = [store EXCEPT ![n] = ProcessAll(f.queries, @)]
        /\ hist' = [hist EXCEPT !.applied = @ \cup
                      { Hint(f.from, n, q) : q \in Range(f.queries) }]
        /\ wire' = wire \ {f}
    /\ resp' = NoResp
    /\ UNCHANGED <<ringVars, otherVars, gossipVars, now, hints, req, flush>>

(***************************************************************************)
(* A node stops or is cut off: its threads end, the frames it has not      *)
(* processed are lost, its files stay.  A node starts again.               *)
(***************************************************************************)
NodeStops(n) ==
    /\ up[n]
    /\ Cardinality({ q \in Nodes : ~up[q] }) < MaxUnreachable
    /\ hist.stops < MaxStops
    /\ up' = [up EXCEPT ![n] = FALSE]
    /\ wire' = { f \in wire : f.to # n }
    /\ flush' = [flush EXCEPT ![n] = [p \in Nodes |-> IdleFlush]]
    /\ IF req.pc # "idle" /\ req.coord = n
       THEN req' = IdleReq /\ resp' = Answer("LOST", None, "")
       ELSE req' = req /\ resp' = NoResp
    /\ hist' = [hist EXCEPT
                  !.reads = 0, !.stops = @ + 1,
                  !.dropped = @ \cup UNION { { Hint(f.from, n, q) : q \in Range(f.queries) } :
                                             f \in { g \in wire : g.to = n /\ g.type = "Hinted" } }]
    /\ UNCHANGED <<ringVars, otherVars, gossipRest, now, store, hints>>

NodeStarts(n) ==
    /\ ~up[n]
    /\ up' = [up EXCEPT ![n] = TRUE]
    /\ hist' = [hist EXCEPT !.reads = 0]
    /\ resp' = NoResp
    /\ UNCHANGED <<ringVars, otherVars, gossipRest, now, store, hints, req, flush, wire>>

ClusterNext ==
    \/ \E c \in Nodes : \E q \in ClientQueries(now + 1) : ClientQuery(c, q)
    \/ CoordLocal
    \/ CoordConnectFail
    \/ CoordConnect
    \/ CoordForward
    \/ CoordSendFail
    \/ \E cl \in ConsistencyLevels : CoordRespond(cl)
    \/ CoordRepair
    \/ \E n \in Nodes : NodeQuery(n)
    \/ \E n \in Nodes : NodeStops(n)
    \/ \E n \in Nodes : NodeStarts(n)

\* the request path with read repair, under node failures
SpecCluster == ClusterInit /\ [][ClusterNext]_vars

(***************************************************************************)
(* C1: at level Quorum over the three replicas the client gets a RESULT    *)
(* only if at least two replicas acknowledged, and ERROR "Not enough       *)
(* nodes responded" otherwise.                                             *)
(***************************************************************************)
C1_QuorumNeedsTwoAcks ==
    (resp.cl = "Quorum" /\ resp.kind \in {"RESULT", "ERROR"}) =>
        (resp.kind = "RESULT" <=> resp.acks >= 2)

(***************************************************************************)
(* C4: the coordinator records a hint for a remote replica exactly when    *)
(* the query is not a SELECT and the forwarding to that replica failed,    *)
(* at the connect or at the send, and it goes on to answer its client.     *)
(***************************************************************************)
C4_HintIffForwardingFailed ==
    resp.kind \in {"RESULT", "ERROR", "PANIC"} =>
        /\ resp.hinted = IF resp.op # "SELECT" THEN resp.failed ELSE {}
        /\ resp.op # "SELECT" => resp.kind # "PANIC"

\* every node stores the same rows
Converged == \A n, m \in Nodes : store[n] = store[m]

(***************************************************************************)
(* C7: with every replica reachable and no write in between, reads at a    *)
(* level of Two or more bring the three replicas to the same row: after    *)
(* two such reads in a row, with their repairs applied, the tables agree.  *)
(***************************************************************************)
C7_ReadRepairConverges ==
    (hist.reads >= 2 /\ req.pc = "idle" /\ wire = {} /\ \A n \in Nodes : up[n]) =>
        Converged

\* the replicas that answered the fan-out of the request just repaired
Responders == Nodes \ resp.failed

\* the last_update no answer of the fan-out is later than
WinnerStamp ==
    CHOOSE w \in { Last(Unwrap(resp.own[r])[1]) : r \in Responders } :
        \A r \in Responders : ~Later(Last(Unwrap(resp.own[r])[1]), w)

(***************************************************************************)
(* C8: read repair dispatches an UPDATE to a replica exactly when the      *)
(* replica answered the fan-out and the last_update of its own answer      *)
(* differs from the winner's; never to a replica that did not answer or    *)
(* whose answer already equals the winner, also when a replica was         *)
(* unreachable during the fan-out.  Stated for answers of one row.         *)
(***************************************************************************)
C8_RepairGoesToStaleResponders ==
    (/\ resp.kind = "REPAIR"
     /\ \A r \in Responders : resp.own[r] # None /\ Len(Unwrap(resp.own[r])) = 1) =>
        \A r \in Nodes :
            r \in resp.dispatched <=>
                (r \in Responders /\ Last(Unwrap(resp.own[r])[1]) # WinnerStamp)

(***************************************************************************)
(* C9: once a write at Quorum or All has succeeded, and while no further   *)
(* write is made, every read that is answered shows the written value,     *)
(* whatever its coordinator and level, and whatever nodes failed or        *)
(* revived in between.                                                     *)
(***************************************************************************)
C9_ReadsShowTheWrite ==
    (resp.kind = "RESULT" /\ resp.op = "SELECT" /\ hist.committed # None) =>
        /\ resp.rows # None
        /\ \E i \in DOMAIN Unwrap(resp.rows) :
              Unwrap(resp.rows)[i][1] = Unwrap(hist.committed)


(***************************************************************************)
(* Hinted handoff under node failures: the clients only write, and the     *)
(* hints their coordinators record are handed off.                         *)
(***************************************************************************)
\* the number of client writes of a hinted-handoff run
MaxWrites == 2

ClientWrite(c, q) ==
    /\ now < MaxWrites
    /\ is_not_select(q)
    /\ ClientQuery(c, q)

HandoffNext ==
    \/ \E c \in Nodes : \E q \in ClientQueries(now + 1) : ClientWrite(c, q)
    \/ CoordLocal
    \/ CoordConnectFail
    \/ CoordConnect
    \/ CoordForward
    \/ CoordSendFail
    \/ \E cl \in ConsistencyLevels : CoordRespond(cl)
    \/ \E c, p \in Nodes : \E addr \in HandoffAddresses : FlushRead(c, p, addr)
    \/ \E c, p \in Nodes : FlushSend(c, p)
    \/ \E c, p \in Nodes : FlushFail(c, p)
    \/ \E c, p \in Nodes : FlushRemove(c, p)
    \/ \E n \in Nodes : NodeHinted(n)
    \/ \E n \in Nodes : NodeStops(n)
    \/ \E n \in Nodes : NodeStarts(n)

SpecHandoff == ClusterInit /\ [][HandoffNext]_vars

\* the hints of the file of node c for peer p
HintLines(c, p) ==
    IF hints[c][p] = None THEN {}
    ELSE { Hint(c, p, q) : q \in Range(Unwrap(hints[c][p])) }

(***************************************************************************)
(* C5: a hint leaves the hints file of a peer only after it has been       *)
(* included in a Hinted frame that was sent to the internode listener of   *)
(* that peer; a failed connect or send leaves the file in place.           *)
(***************************************************************************)
C5_HintRemovedOnlyAfterSent ==
    [][\A c, p \in Nodes :
          \A h \in HintLines(c, p) :
              h \notin HintLines(c, p)' => h \in hist'.sent]_vars

\* a Hinted frame for node p is on its way
HintedInFlight(p) == \E f \in wire : f.type = "Hinted" /\ f.to = p

(***************************************************************************)
(* C6: a write hinted for a peer that revives ends up applied by the peer  *)
(* with the hints file gone: once the file is gone and no Hinted frame is  *)
(* on its way to the peer, the peer has applied each hint recorded for it  *)
(* (but for a frame the peer lost by stopping again).                      *)
(***************************************************************************)
C6_HintedWritesReachThePeer ==
    \A h \in hist.recorded :
        (/\ hints[h.from][h.to] = None
         /\ ~HintedInFlight(h.to)
         /\ h \notin hist.dropped) =>
            h \in hist.applied


(***************************************************************************)
(* The table store of one node.  Connection threads execute INSERT         *)
(* (Tables::append_to_table) and UPDATE / DELETE (Tables::update_table)    *)
(* on one table.  Every caller reaches the store through a method of       *)
(* Context that takes &mut self, on the guard of ctx.write().  The map of  *)
(* tables is only read here, so its outer lock never blocks.  A row is     *)
(* the value of its data column; every row matches the WHERE clause.       *)
(***************************************************************************)
\* the number of connection threads
MaxThreads == 2

\* the number of statements of a run
MaxOps == 3

Threads == 1..MaxThreads

\* std::sync::RwLock, by the threads that hold its guards
Unlocked == [readers |-> {}, writer |-> {}]

CanRead(l) == l.writer = {}

CanWrite(l) == l.writer = {} /\ l.readers = {}

\* a statement that reaches the store without the guard of the Context
ContextNotTaken(l) == TRUE

\* ctx.write() in client.rs, node.rs and read_repair.rs
ContextFree(l) == CanWrite(l)

Statements(id) ==
    { [kind |-> "append", v |-> id], [kind |-> "update", v |-> id],
      [kind |-> "delete", v |-> id] }

\* the rows update_table writes to table.tmp: the visitor of UPDATE
\* overlays the SET on the row, the visitor of DELETE drops it
Visit(op, rows) ==
    IF op.kind = "update" THEN [i \in DOMAIN rows |-> op.v] ELSE <<>>

IdleThread == [pc |-> "idle", op |-> [kind |-> "", v |-> 0]]

StoreInit ==
    /\ fs = [table |-> <<>>, tmp |-> None]
    /\ locks = [ctx |-> Unlocked, table |-> Unlocked]
    /\ thr = [t \in Threads |-> IdleThread]
    /\ oplog = <<>>
    /\ csv = <<>>
    /\ tmpcsv = {}
    /\ tally = <<>>
    /\ outcome = ""
    /\ conn = <<>>
    /\ lvl = <<>>
    /\ gtp = <<>>
    /\ LaterIdle
    /\ RingIdle /\ GossipIdle /\ ClusterIdle

Started == Len(oplog) + Cardinality({ t \in Threads : thr[t].pc # "idle" })

\* a connection thread has its statement and waits for ctx.write()
Call(t) ==
    /\ thr[t].pc = "idle"
    /\ Started < MaxOps
    /\ \E op \in Statements(Started + 1) :
           thr' = [thr EXCEPT ![t] = [pc |-> "wait", op |-> op]]
    /\ UNCHANGED <<ringVars, gossipVars, clusterVars, clientVars, rowVars, fs, locks, oplog>>

\* ctx.write() returns the guard
Enter(t) ==
    /\ thr[t].pc = "wait"
    /\ ContextFree(locks.ctx)
    /\ locks' = [locks EXCEPT !.ctx.writer = @ \cup {t}]
    /\ thr' = [thr EXCEPT ![t].pc = "ctx"]
    /\ UNCHANGED <<ringVars, gossipVars, clusterVars, clientVars, rowVars, fs, oplog>>

\* append_to_table: the inner read guard, under which the row is built
AppendRead(t) ==
    /\ thr[t].pc = "ctx" /\ thr[t].op.kind = "append"
    /\ CanRead(locks.table)
    /\ locks' = [locks EXCEPT !.table.readers = @ \cup {t}]
    /\ thr' = [thr EXCEPT ![t].pc = "a_read"]
    /\ UNCHANGED <<ringVars, gossipVars, clusterVars, clientVars, rowVars, fs, oplog>>

\* append_to_table: drop(table_read_guard)
AppendDrop(t) ==
    /\ thr[t].pc = "a_read"
    /\ locks' = [locks EXCEPT !.table.readers = @ \ {t}]
    /\ thr' = [thr EXCEPT ![t].pc = "a_built"]
    /\ UNCHANGED <<ringVars, gossipVars, clusterVars, clientVars, rowVars, fs, oplog>>

\* append_to_table: the inner write guard, the line appended to table.csv,
\* and the return, which drops the guards
AppendWrite(t) ==
    /\ thr[t].pc = "a_built"
    /\ CanWrite(locks.table)
    /\ fs' = [fs EXCEPT !.table = Append(@, thr[t].op.v)]
    /\ oplog' = Append(oplog, thr[t].op)
    /\ locks' = [locks EXCEPT !.ctx.writer = @ \ {t}]
    /\ thr' = [thr EXCEPT ![t] = IdleThread]
    /\ UNCHANGED <<ringVars, gossipVars, clusterVars, clientVars, rowVars>>

\* update_table: the inner read guard
RewriteRead(t) ==
    /\ thr[t].pc = "ctx" /\ thr[t].op.kind \in {"update", "delete"}
    /\ CanRead(locks.table)
    /\ locks' = [locks EXCEPT !.table.readers = @ \cup {t}]
    /\ thr' = [thr EXCEPT ![t].pc = "u_read"]
    /\ UNCHANGED <<ringVars, gossipVars, clusterVars, clientVars, rowVars, fs, oplog>>

\* update_table: table.csv is read and table.tmp written, then
\* drop(table_read_guard)
RewriteTmp(t) ==
    /\ thr[t].pc = "u_read"
    /\ fs' = [fs EXCEPT !.tmp = Some(Visit(thr[t].op, fs.table))]
    /\ locks' = [locks EXCEPT !.table.readers = @ \ {t}]
    /\ thr' = [thr EXCEPT ![t].pc = "u_tmp"]
    /\ UNCHANGED <<ringVars, gossipVars, clusterVars, clientVars, rowVars, oplog>>

\* update_table: the inner write guard, rename(table.tmp, table.csv), and
\* the return; the rename fails if table.tmp is gone
RewriteRename(t) ==
    /\ thr[t].pc = "u_tmp"
    /\ CanWrite(locks.table)
    /\ IF fs.tmp = None
       THEN UNCHANGED <<fs, oplog>>
       ELSE /\ fs' = [table |-> Unwrap(fs.tmp), tmp |-> None]
            /\ oplog' = Append(oplog, thr[t].op)
    /\ locks' = [locks EXCEPT !.ctx.writer = @ \ {t}]
    /\ thr' = [thr EXCEPT ![t] = IdleThread]
    /\ UNCHANGED <<ringVars, gossipVars, clusterVars, clientVars, rowVars>>

StoreNext ==
    \/ \E t \in Threads : Call(t)
    \/ \E t \in Threads : Enter(t)
    \/ \E t \in Threads : AppendRead(t)
    \/ \E t \in Threads : AppendDrop(t)
    \/ \E t \in Threads : AppendWrite(t)
    \/ \E t \in Threads : RewriteRead(t)
    \/ \E t \in Threads : RewriteTmp(t)
    \/ \E t \in Threads : RewriteRename(t)

SpecStore == StoreInit /\ [][StoreNext]_vars

\* the rows after the statements of a sequence, one after the other
RECURSIVE ApplyAll(_, _)
ApplyAll(ops, rows) ==
    IF ops = <<>> THEN rows
    ELSE ApplyAll(Tail(ops),
                  IF Head(ops).kind = "append" THEN Append(rows, Head(ops).v)
                  ELSE Visit(Head(ops), rows))

(***************************************************************************)
(* C10: whatever the interleaving of the appends and rewrites of the       *)
(* connection threads, table.csv holds the rows of a serial execution of   *)
(* the completed statements, in the order of the write of each append and  *)
(* of the rename of each rewrite: no completed append is lost, rewrites    *)
(* do not mix, and a rewrite shows only from its rename.                   *)
(***************************************************************************)
C10_SerialAtCommitPoints == fs.table = ApplyAll(oplog, <<>>)

\* an append has completed, a rewrite has written table.tmp from it and is
\* about to rename, and another thread waits with an append of its own
C10_Witness ==
    \E t, u \in Threads :
        /\ thr[t].pc = "u_tmp" /\ fs.tmp # None
        /\ thr[u].pc = "wait" /\ thr[u].op.kind = "append"
        /\ \E i \in DOMAIN oplog : oplog[i].kind = "append"


(***************************************************************************)
(* The row file of one table, byte by byte.  The table has an Int column   *)
(* i and a Text column n.  Statements reach the file one at a time.        *)
(* append_to_table writes the joined values as a line; update_table reads  *)
(* table.csv with csv::Reader and writes table.tmp with csv::Writer.       *)
(***************************************************************************)
\* the number of row operations of a run
MaxRowOps == 3

Comma == ","

Newline == "\n"

Quote == "\""

\* create_table: the header line of table.csv
Header == <<"i", Comma, "n", Newline>>

\* values a caller passes for the Int column: "x" fails i32 parsing
IntInputs == { <<"1">>, <<"2">>, <<"x">> }

\* values a caller passes for the Text column
TextInputs == { <<"x">>, <<Comma>>, <<Newline>>, <<Quote>>, <<>> }

\* SchemaType::Int.check_type
ParsesAsInt(value) == value \in { <<"1">>, <<"2">> }

RECURSIVE Flatten(_)
Flatten(seqs) == IF seqs = <<>> THEN <<>> ELSE Head(seqs) \o Flatten(Tail(seqs))

\* row.join(",")
RECURSIVE Join(_)
Join(row) ==
    IF Len(row) = 0 THEN <<>>
    ELSE IF Len(row) = 1 THEN row[1]
    ELSE row[1] \o <<Comma>> \o Join(Tail(row))

\* get_columns: the first line of the file, split at the commas
RECURSIVE SplitLine(_, _, _)
SplitLine(bytes, i, field) ==
    IF i > Len(bytes) \/ bytes[i] = Newline THEN <<field>>
    ELSE IF bytes[i] = Comma THEN <<field>> \o SplitLine(bytes, i + 1, <<>>)
    ELSE SplitLine(bytes, i + 1, Append(field, bytes[i]))

get_columns(bytes) == SplitLine(bytes, 1, <<>>)

\* csv::Reader with the default settings: a field that starts with a quote
\* runs to its closing quote, a doubled quote inside it is one quote, blank
\* lines are skipped, the end of the file closes an open record
RECURSIVE ReadCsv(_, _, _, _, _, _)
ReadCsv(bytes, i, mode, field, rec, recs) ==
    IF i > Len(bytes)
    THEN IF mode = "start" /\ rec = <<>> THEN recs
         ELSE Append(recs, Append(rec, field))
    ELSE LET c == bytes[i]
             EndField == ReadCsv(bytes, i + 1, "start", <<>>,
                                 Append(rec, field), recs)
             EndRecord == ReadCsv(bytes, i + 1, "start", <<>>, <<>>,
                                  Append(recs, Append(rec, field)))
             Take(m) == ReadCsv(bytes, i + 1, m, Append(field, c), rec, recs)
             Skip(m) == ReadCsv(bytes, i + 1, m, field, rec, recs)
         IN CASE mode = "start" ->
                   IF c = Quote THEN Skip("quoted")
                   ELSE IF c = Comma THEN EndField
                   ELSE IF c = Newline
                        THEN (IF rec = <<>> THEN Skip("start") ELSE EndRecord)
                   ELSE Take("plain")
              [] mode = "plain" ->
                   IF c = Comma THEN EndField
                   ELSE IF c = Newline THEN EndRecord
                   ELSE Take("plain")
              [] mode = "quoted" ->
                   IF c = Quote THEN Skip("closing") ELSE Take("quoted")
              [] OTHER ->
                   IF c = Quote THEN Take("quoted")
                   ELSE IF c = Comma THEN EndField
                   ELSE IF c = Newline THEN EndRecord
                   ELSE Take("plain")

Records(bytes) == ReadCsv(bytes, 1, "start", <<>>, <<>>, <<>>)

\* a field written as it is, as row.join(",") writes it
write_raw(f) == f

\* csv::Writer: a field with a delimiter, a quote or a line end is quoted,
\* its quotes doubled
WriteField(f) ==
    IF \E j \in DOMAIN f : f[j] \in {Comma, Newline, Quote}
    THEN <<Quote>>
         \o Flatten([j \in DOMAIN f |->
                        IF f[j] = Quote THEN <<Quote, Quote>> ELSE <<f[j]>>])
         \o <<Quote>>
    ELSE f

\* csv::Writer::write_record
WriteRecord(rec) == Join([j \in DOMAIN rec |-> WriteField(rec[j])]) \o <<Newline>>

\* map_string_record_to_hashmap: the fields zipped with the headers
ColumnOf(rec, headers, col) ==
    IF \E j \in DOMAIN rec : j <= Len(headers) /\ headers[j] = col
    THEN Some(rec[CHOOSE j \in DOMAIN rec : j <= Len(headers) /\ headers[j] = col])
    ELSE None

RowsInit ==
    /\ csv = Header
    /\ tmpcsv = None
    /\ tally = [appends |-> 0, removed |-> 0, ops |-> 0]
    /\ outcome = "none"
    /\ fs = <<>>
    /\ locks = <<>>
    /\ thr = <<>>
    /\ oplog = <<>>
    /\ conn = <<>>
    /\ lvl = <<>>
    /\ gtp = <<>>
    /\ LaterIdle
    /\ RingIdle /\ GossipIdle /\ ClusterIdle

\* Context::append_to_table with a value for each column
RowAppend(i, n) ==
    /\ tally.ops < MaxRowOps
    /\ LET cols == get_columns(csv)
           data == [c \in {<<"i">>, <<"n">>} |-> IF c = <<"i">> THEN i ELSE n]
           row == [j \in DOMAIN cols |->
                      IF cols[j] \in DOMAIN data THEN data[cols[j]]
                      ELSE <<"N">>]
       IN IF ParsesAsInt(i)
          THEN /\ csv' = csv \o Join(row) \o <<Newline>>
               /\ tally' = [tally EXCEPT !.appends = @ + 1, !.ops = @ + 1]
               /\ outcome' = "ok"
          ELSE /\ csv' = csv
               /\ tally' = [tally EXCEPT !.ops = @ + 1]
               /\ outcome' = "err"
    /\ UNCHANGED <<ringVars, gossipVars, clusterVars, clientVars, fs, locks, thr,
                   oplog, tmpcsv>>

\* the rows update_table writes for the records it reads, up to the first
\* record the reader rejects; the visitor is that of UPDATE (kind "update":
\* SET n = v WHERE i = k) or of DELETE (kind "delete": WHERE i = k)
RECURSIVE Rewrite(_, _, _, _, _, _)
Rewrite(recs, headers, cols, st, out, gone) ==
    IF recs = <<>> THEN [err |-> FALSE, bytes |-> out, removed |-> gone]
    ELSE LET rec == Head(recs)
             hit == ColumnOf(rec, headers, <<"i">>) = Some(st.k)
             row == [j \in DOMAIN cols |->
                        IF hit /\ cols[j] = <<"n">> THEN st.v
                        ELSE IF ColumnOf(rec, headers, cols[j]) = None
                             THEN <<"N">>
                             ELSE Unwrap(ColumnOf(rec, headers, cols[j]))]
         IN IF Len(rec) # Len(headers)
            THEN [err |-> TRUE, bytes |-> out, removed |-> gone]
            ELSE IF hit /\ st.kind = "delete"
            THEN Rewrite(Tail(recs), headers, cols, st, out, gone + 1)
            ELSE IF \E j \in DOMAIN cols :
                       cols[j] = <<"i">> /\ ~ParsesAsInt(row[j])
            THEN [err |-> TRUE, bytes |-> out, removed |-> gone]
            ELSE Rewrite(Tail(recs), headers, cols, st,
                         out \o WriteRecord(row), gone)

RowStatements ==
    { [kind |-> "update", k |-> k, v |-> v] :
          k \in { <<"1">>, <<"2">> }, v \in TextInputs }
    \cup { [kind |-> "delete", k |-> k, v |-> <<>>] : k \in { <<"1">>, <<"2">> } }

\* Context::update_table
RowRewrite(st) ==
    /\ tally.ops < MaxRowOps
    /\ LET cols == get_columns(csv)
           recs == Records(csv)
           res == Rewrite(Tail(recs), Head(recs), cols, st,
                          WriteRecord(cols), 0)
       IN /\ tmpcsv' = IF res.err THEN Some(res.bytes) ELSE None
          /\ csv' = IF res.err THEN csv ELSE res.bytes
          /\ tally' = [tally EXCEPT !.ops = @ + 1,
                          !.removed = IF res.err THEN @ ELSE @ + res.removed]
          /\ outcome' = IF res.err THEN "err" ELSE "ok"
    /\ UNCHANGED <<ringVars, gossipVars, clusterVars, clientVars, fs, locks, thr,
                   oplog>>

RowsNext ==
    \/ \E i \in IntInputs : \E n \in TextInputs : RowAppend(i, n)
    \/ \E st \in RowStatements : RowRewrite(st)

SpecRows == RowsInit /\ [][RowsNext]_vars

\* the file starts with the header line
HeaderIntact ==
    /\ Len(csv) >= Len(Header)
    /\ SubSeq(csv, 1, Len(Header)) = Header

\* the rows read_table visits: the records after the header
DataRows == Tail(Records(csv))

(***************************************************************************)
(* C11: after every INSERT, UPDATE or DELETE on the table, successful or   *)
(* not, table.csv starts with the unchanged header line and holds as many  *)
(* data rows as appends succeeded minus the rows deletes removed.          *)
(***************************************************************************)
C11_RowFileWellFormed ==
    /\ HeaderIntact
    /\ Len(DataRows) = tally.appends - tally.removed


(***************************************************************************)
(* The client connections of a node.  Each accepted connection has a       *)
(* handle_connection thread: it reads a frame, answers it, reads a second  *)
(* frame and takes its query.  A frame is its opcode.                      *)
(***************************************************************************)
\* the number of client connections of a run
MaxConns == 3

Conns == 1..MaxConns

\* the opcodes a client can put in a frame header
Opcodes == { "STARTUP", "QUERY", "READY", "OPTIONS" }

\* Frame::read: a body is read for requests and responses only
FrameReads(opcode) == opcode \in { "STARTUP", "QUERY", "READY" }

\* Request::get_query
get_query(opcode) == IF opcode = "QUERY" THEN Some(opcode) ELSE None

Accepted == [pc |-> "AwaitingStartup", first |-> "", second |-> "", sent |-> <<>>,
             executed |-> FALSE]

ConnInit ==
    /\ conn = [c \in Conns |-> Accepted]
    /\ fs = <<>>
    /\ locks = <<>>
    /\ thr = <<>>
    /\ oplog = <<>>
    /\ csv = <<>>
    /\ tmpcsv = {}
    /\ tally = <<>>
    /\ outcome = ""
    /\ lvl = <<>>
    /\ gtp = <<>>
    /\ LaterIdle
    /\ RingIdle /\ GossipIdle /\ ClusterIdle

\* handle_connection from the first read_request to the second: the frame
\* is read (unwrap), an ERROR is written if it is not a STARTUP, and a
\* READY is written
ConnFirstFrame(c, opcode) ==
    /\ conn[c].pc = "AwaitingStartup"
    /\ conn' = [conn EXCEPT ![c] =
          IF ~FrameReads(opcode)
          THEN [@ EXCEPT !.pc = "Closed", !.first = opcode]
          ELSE [@ EXCEPT !.pc = "AwaitingQuery", !.first = opcode,
                         !.sent = (IF opcode # "STARTUP"
                                   THEN Append(@, "ERROR") ELSE @)
                                  \o <<"READY">>]]
    /\ UNCHANGED <<ringVars, gossipVars, clusterVars, storeVars, levelVars, probeVars, laterVars>>

\* handle_connection at the second read_request: the frame is read
\* (unwrap) and its query taken (unwrap); the query is then executed
ConnSecondFrame(c, opcode) ==
    /\ conn[c].pc = "AwaitingQuery"
    /\ conn' = [conn EXCEPT ![c] =
          IF ~FrameReads(opcode) \/ get_query(opcode) = None
          THEN [@ EXCEPT !.pc = "Closed", !.second = opcode]
          ELSE [@ EXCEPT !.pc = "Executing", !.second = opcode, !.executed = TRUE]]
    /\ UNCHANGED <<ringVars, gossipVars, clusterVars, storeVars, levelVars, probeVars, laterVars>>

\* handle_connection at its end: a RESULT or an ERROR frame is written and
\* the connection dropped
ConnReply(c, opcode) ==
    /\ conn[c].pc = "Executing"
    /\ conn' = [conn EXCEPT ![c].pc = "Closed", ![c].sent = Append(@, opcode)]
    /\ UNCHANGED <<ringVars, gossipVars, clusterVars, storeVars, levelVars, probeVars, laterVars>>

ConnNext ==
    \/ \E c \in Conns : \E opcode \in Opcodes : ConnFirstFrame(c, opcode)
    \/ \E c \in Conns : \E opcode \in Opcodes : ConnSecondFrame(c, opcode)
    \/ \E c \in Conns : \E opcode \in { "RESULT", "ERROR" } : ConnReply(c, opcode)

SpecConn == ConnInit /\ [][ConnNext]_vars

Sent(c, opcode) == \E j \in DOMAIN conn[c].sent : conn[c].sent[j] = opcode

(***************************************************************************)
(* C12: a connection is sent READY only if its first frame was a STARTUP;  *)
(* a connection whose first frame has another opcode is answered with an   *)
(* ERROR, is never sent READY and never has a query executed.              *)
(***************************************************************************)
C12_ReadyOnlyAfterStartup ==
    \A c \in Conns :
        /\ Sent(c, "READY") => conn[c].first = "STARTUP"
        /\ conn[c].first \notin { "", "STARTUP" } =>
              /\ conn[c].sent # <<>> /\ conn[c].sent[1] = "ERROR"
              /\ ~Sent(c, "READY")
              /\ ~conn[c].executed

\* the connection was sent READY and its second frame, not a QUERY, has been handled
SecondNotQuery(c) ==
    /\ Sent(c, "READY")
    /\ conn[c].second \notin { "", "QUERY" }

\* C32: when the second frame of a connection is not a QUERY, the server answers it
\* with an ERROR frame and executes nothing
C32_ErrorForNonQuery ==
    \A c \in Conns :
        SecondNotQuery(c) =>
            /\ conn[c].sent[Len(conn[c].sent)] = "ERROR"
            /\ ~conn[c].executed

\* C32, for the execution alone: nothing is executed for a second frame that is not a
\* QUERY
C32_NothingExecuted == \A c \in Conns : SecondNotQuery(c) => ~conn[c].executed

(***************************************************************************)
(* The consistency check of the coordinator, on the answers of             *)
(* SpecCluster.                                                            *)
(***************************************************************************)
\* the acknowledgements a level asks for
Required(cl) ==
    CASE cl = "One" -> 1 [] cl = "Two" -> 2 [] cl = "Three" -> 3
      [] cl = "All" -> 3 [] cl = "Quorum" -> 2 [] OTHER -> 1

\* the coordinator has reached the consistency check of a request
Checked == resp.kind \in {"ERROR", "RESULT", "PANIC"} /\ resp.cl # ""

(***************************************************************************)
(* C13: at the levels One, Two, Three and All the coordinator answers      *)
(* ERROR "Not enough nodes responded" exactly when fewer replicas          *)
(* acknowledged than the level requires (1, 2, 3 and 3), and otherwise     *)
(* reconciles the responses and answers with a RESULT.                     *)
(***************************************************************************)
C13_ErrorIffTooFewAcks ==
    Checked /\ resp.cl \in {"One", "Two", "Three", "All"} =>
        /\ resp.kind = "ERROR" <=> resp.acks < Required(resp.cl)
        /\ resp.acks >= Required(resp.cl) => resp.kind = "RESULT"

\* the part of C13 about the threshold alone
C13_Threshold ==
    Checked /\ resp.cl \in {"One", "Two", "Three", "All"} =>
        (resp.kind = "ERROR" <=> resp.acks < Required(resp.cl))


(***************************************************************************)
(* A ring of four nodes, where the coordinator of a key need not be one    *)
(* of its three replicas.  The tables are empty: every replica that        *)
(* answers, answers with no rows.  A node is reachable or not for the      *)
(* whole request.                                                          *)
(***************************************************************************)
FourNodes == 1..(ReplicationFactor + 1)

\* a cassandra.json of four nodes, in token order
FourNodeConfig ==
    [i \in FourNodes |->
        Node(i, SegmentsFrom(MinToken, {MinToken + 1, 0, MaxToken})[i])]

IdleLevel ==
    [pc |-> "idle", coord |-> 0, op |-> "", nodes |-> <<>>, idx |-> 0,
     all_rows |-> <<>>, acks |-> 0, hinted |-> {}, cl |-> "", kind |-> ""]

LevelInit ==
    /\ config = FourNodeConfig
    /\ hashOf \in [Keys -> Tokens]
    /\ key = "k1"
    /\ lookup = [n \in Nodes |-> None]
    /\ up \in [FourNodes -> BOOLEAN]
    /\ self_hb = <<>>
    /\ peers = <<>>
    /\ probe = <<>>
    /\ handler = <<>>
    /\ syns = {}
    /\ acks = {}
    /\ lvl = IdleLevel
    /\ gtp = <<>>
    /\ LaterIdle
    /\ conn = <<>>
    /\ fs = <<>>
    /\ locks = <<>>
    /\ thr = <<>>
    /\ oplog = <<>>
    /\ csv = <<>>
    /\ tmpcsv = {}
    /\ tally = <<>>
    /\ outcome = ""
    /\ ClusterIdle

levelRest == <<ringVars, gossipVars, clusterVars, storeVars, connVars, probeVars, laterVars>>

\* handle_connection up to the loop, for an INSERT or a SELECT of key k1
LevelQuery(c, op) ==
    /\ lvl.pc = "idle" /\ up[c]
    /\ lvl' = [IdleLevel EXCEPT !.pc = "loop", !.coord = c, !.op = op,
                  !.nodes = get_nodes(Partitioner(c), key).nodes, !.idx = 1]
    /\ UNCHANGED levelRest

\* the loop at a replica that is the coordinator
LevelLocal ==
    /\ lvl.pc = "loop" /\ lvl.idx <= Len(lvl.nodes)
    /\ is_me(Partitioner(lvl.coord), lvl.nodes[lvl.idx])
    /\ lvl' = [lvl EXCEPT !.all_rows = Append(@, None), !.acks = @ + 1,
                          !.idx = @ + 1]
    /\ UNCHANGED levelRest

\* the loop at a replica the connect fails to: a hint for a write, continue
LevelConnectFail ==
    /\ lvl.pc = "loop" /\ lvl.idx <= Len(lvl.nodes)
    /\ ~is_me(Partitioner(lvl.coord), lvl.nodes[lvl.idx])
    /\ ~up[lvl.nodes[lvl.idx].ip_address]
    /\ lvl' = [lvl EXCEPT !.idx = @ + 1,
                  !.hinted = IF lvl.op # "SELECT"
                             THEN @ \cup {lvl.nodes[lvl.idx].ip_address} ELSE @]
    /\ UNCHANGED levelRest

\* the loop at a replica that answers with its Result frame
LevelForward ==
    /\ lvl.pc = "loop" /\ lvl.idx <= Len(lvl.nodes)
    /\ ~is_me(Partitioner(lvl.coord), lvl.nodes[lvl.idx])
    /\ up[lvl.nodes[lvl.idx].ip_address]
    /\ lvl' = [lvl EXCEPT !.all_rows = Append(@, None), !.acks = @ + 1,
                          !.idx = @ + 1]
    /\ UNCHANGED levelRest

\* handle_connection after the loop: the consistency check and the reply
LevelRespond(cl) ==
    /\ lvl.pc = "loop" /\ lvl.idx > Len(lvl.nodes)
    /\ lvl' = [lvl EXCEPT !.pc = "done", !.cl = cl,
                  !.kind = IF NotEnoughNodes(lvl.acks, cl) THEN "ERROR"
                           ELSE IF compare_responses(lvl.all_rows, cl).panic
                           THEN "PANIC" ELSE "RESULT"]
    /\ UNCHANGED levelRest

LevelNext ==
    \/ \E c \in FourNodes : \E op \in {"INSERT", "SELECT"} : LevelQuery(c, op)
    \/ LevelLocal
    \/ LevelConnectFail
    \/ LevelForward
    \/ \E cl \in ConsistencyLevels : LevelRespond(cl)

SpecLevel == LevelInit /\ [][LevelNext]_vars

(***************************************************************************)
(* C14: at the level Any a query is answered as successful only if at      *)
(* least one replica acknowledged it; one acknowledgement suffices, and    *)
(* with none the answer is ERROR "Not enough nodes responded".             *)
(***************************************************************************)
C14_AnyNeedsOneAck ==
    lvl.pc = "done" /\ lvl.cl = "Any" =>
        /\ lvl.acks >= 1 => lvl.kind = "RESULT"
        /\ lvl.acks = 0 => lvl.kind = "ERROR"


(***************************************************************************)
(* Reconciliation, on the answers of SpecCluster.  resp.own holds the      *)
(* response of each replica to the request just answered.                  *)
(***************************************************************************)
\* the replicas whose response carried rows
Answered == { n \in Nodes : resp.own[n] # None }

RowsOf(n) == Unwrap(resp.own[n])

\* the row sets that at least target replicas answered with
Agreed(target) ==
    { RowsOf(n) : n \in { m \in Answered :
          Cardinality({ o \in Answered : RowsOf(o) = RowsOf(m) }) >= target } }

\* the rows of the responses at a row index
RowsAt(i) == { RowsOf(n)[i] : n \in { m \in Answered : i <= Len(RowsOf(m)) } }

\* rows is, index by index, a row of the latest last_update of the responses
LatestPerIndex(rows) ==
    /\ \A n \in Answered : Len(RowsOf(n)) <= Len(rows)
    /\ \A i \in DOMAIN rows :
          /\ rows[i] \in RowsAt(i)
          /\ \A r \in RowsAt(i) : ~Later(Last(r), Last(rows[i]))

\* a read at a counting level got past the consistency check with rows to
\* reconcile
Reconciled ==
    /\ Checked /\ resp.op = "SELECT" /\ resp.kind # "ERROR"
    /\ resp.cl \in {"Two", "Three", "Quorum"}
    /\ Answered # {}

(***************************************************************************)
(* C15: a read at Two, Three or Quorum returns a row set that at least     *)
(* target replicas answered with (target is the number of the level, 2     *)
(* for Quorum) if there is one, and otherwise the row set that has, at     *)
(* every row index, the row with the latest last_update of the responses.  *)
(***************************************************************************)
C15_CountedOrLatest ==
    Reconciled =>
        /\ resp.kind = "RESULT" /\ resp.rows # None
        /\ LET agreed == Agreed(Required(resp.cl))
           IN  IF agreed # {}
               THEN \E rows \in agreed :
                       Unwrap(resp.rows) = remove_last_update(rows)
               ELSE \E n \in Answered : \E rows \in [DOMAIN RowsOf(n) -> UNION { RowsAt(i) : i \in DOMAIN RowsOf(n) }] :
                       /\ LatestPerIndex(rows)
                       /\ Unwrap(resp.rows) = remove_last_update(rows)

\* C15 for the requests the coordinator answers
C15_WhenAnswered == Reconciled /\ resp.kind = "RESULT" => C15_CountedOrLatest


\* all three replicas answered a read with one row, two of them with the
\* same older version and replica n with a newer one
OneNewer(n) ==
    /\ Checked /\ resp.op = "SELECT"
    /\ Answered = Nodes
    /\ \A o \in Nodes : Len(RowsOf(o)) = 1
    /\ \A o, p \in Nodes \ {n} : RowsOf(o) = RowsOf(p)
    /\ \A o \in Nodes \ {n} :
          /\ Last(RowsOf(o)[1]) # NULL
          /\ Later(Last(RowsOf(n)[1]), Last(RowsOf(o)[1]))

(***************************************************************************)
(* C16: when two replicas hold an older version of a row and one a newer   *)
(* version, and all three respond, a SELECT at Quorum returns the newer    *)
(* version to the client.                                                  *)
(***************************************************************************)
C16_QuorumReturnsNewer ==
    \A n \in Nodes :
        OneNewer(n) /\ resp.cl = "Quorum" =>
            /\ resp.kind = "RESULT"
            /\ resp.rows = Some(remove_last_update(RowsOf(n)))


(***************************************************************************)
(* Relayed gossip state, on the steps of SpecGossip.  The peers a thread   *)
(* found unknown under manager.read() are inserted later, under            *)
(* manager.write(); the state of a peer in new_peers is relayed unless     *)
(* the peer is the sender of the Syn itself.                               *)
(***************************************************************************)
\* the step inserts the new peers of the probe of n to q
ProbeInserts(n, q) == probe[n][q].pc = "add" /\ probe'[n][q].pc = "idle"

\* the step inserts the new peers of the handler of r for the Syn of s
HandlerInserts(r, s) == handler[r][s].pc = "add" /\ handler'[r][s].pc = "ack"

\* entry p of the table of n is known and the step changes it
EntryChanges(n, p) == peers[n][p].known /\ peers'[n][p] # peers[n][p]

(***************************************************************************)
(* C17: whatever the interleaving of probe and handler threads, state a    *)
(* third node relayed about a peer that is in the local table when the     *)
(* update is applied changes the entry only if the relayed last_heartbeat  *)
(* is strictly greater than the stored one.                                *)
(***************************************************************************)
C17_RelayedOnlyIfNewer ==
    [][\A n, q, p \in Nodes :
          /\ (ProbeInserts(n, q) /\ probe[n][q].new_peers[p].known
                /\ EntryChanges(n, p)) =>
                probe[n][q].new_peers[p].last_heartbeat > peers[n][p].last_heartbeat
          /\ (HandlerInserts(n, q) /\ handler[n][q].new_peers[p].known /\ p # q
                /\ EntryChanges(n, p)) =>
                handler[n][q].new_peers[p].last_heartbeat > peers[n][p].last_heartbeat]_vars


\* the step ends the wait of the probe of n to p
OwnProbeEnds(n, p) == probe[n][p].pc = "wait" /\ probe'[n][p].pc # "wait"

\* the step is a tick of n, whose connect to p fails
TickFails(n, p) == self_hb'[n] # self_hb[n] /\ ~up[p]

(***************************************************************************)
(* C18: at every node the alive flag of a peer goes from true to false     *)
(* only when the node's own probe of that peer fails; what other nodes     *)
(* relay in a Syn or an Ack never sets it to false.                        *)
(***************************************************************************)
C18_DeadOnlyByOwnProbe ==
    [][\A n, p \in Nodes :
          (peers[n][p].known /\ peers[n][p].alive /\ ~peers'[n][p].alive) =>
              (OwnProbeEnds(n, p) \/ TickFails(n, p))]_vars


(***************************************************************************)
(* The order hints are replayed in.  add_hint appends a line to the file   *)
(* of the peer; handle_hinted_handoff reads the lines from the first to    *)
(* the last into one Hinted frame; the peer processes the queries of the   *)
(* frame from the first to the last.  One request is served at a time, so  *)
(* of two hints of one file the one of the smaller request id was appended *)
(* first.  An INSERT of request id leaves a row with b = id, and no query  *)
(* moves a row: the rows of the peer show the order of the INSERTs.        *)
(***************************************************************************)
HintedInserts(c, p) ==
    { h \in hist.applied : h.from = c /\ h.to = p /\ h.q.op = "INSERT" }

AppendedBefore(h1, h2) == h1.q.row.b < h2.q.row.b

\* the place of the first row an INSERT of request id left at node p, 0 if none
FirstRowOf(p, id) ==
    LET at == { i \in DOMAIN store[p] : store[p][i].b = id }
    IN  IF at = {} THEN 0 ELSE CHOOSE i \in at : \A j \in at : i <= j

(***************************************************************************)
(* C19: of two hints recorded in the hints file of one peer, both          *)
(* replayed, the peer applies the one appended first before the other.     *)
(***************************************************************************)
C19_ReplayedInAppendOrder ==
    \A c, p \in Nodes :
        \A h1, h2 \in HintedInserts(c, p) :
            AppendedBefore(h1, h2) =>
                /\ FirstRowOf(p, h1.q.row.b) > 0
                /\ FirstRowOf(p, h1.q.row.b) < FirstRowOf(p, h2.q.row.b)

C19_Witness ==
    \E c, p \in Nodes :
        \E h1, h2 \in HintedInserts(c, p) :
            /\ AppendedBefore(h1, h2)
            /\ FirstRowOf(p, h1.q.row.b) > 0
            /\ FirstRowOf(p, h2.q.row.b) > 0

\* the same, for hints any two nodes hold for the peer
C19_AcrossCoordinators ==
    \A p \in Nodes :
        \A h1, h2 \in { h \in hist.applied : h.to = p /\ h.q.op = "INSERT" } :
            AppendedBefore(h1, h2) =>
                FirstRowOf(p, h1.q.row.b) < FirstRowOf(p, h2.q.row.b)

(***************************************************************************)
(* The gossip ticks of one node, thread by thread.  gossip_starter         *)
(* increments the heartbeat, spawns a gossip_to_peer thread per selected   *)
(* peer and joins them.  gossip_to_peer connects, sends the Syn, reads one *)
(* frame with a timeout of 3 s, matches it, and then looks for the hints   *)
(* file of the peer.  What the other end of the connection does is the     *)
(* input: the connect and the send succeed or fail, the read times out,    *)
(* fails or yields a frame of any type read_inc_frame decodes.             *)
(***************************************************************************)
MaxHeartbeat == 2

Prober == 1

ProbedPeers == Nodes \ {Prober}

\* inc::FrameType
FrameTypes == {"Query", "Result", "Syn", "Ack", "ReadRepair"}

\* read_inc_frame on the stream with set_read_timeout(3 s)
ReadOutcomes == {"TimedOut", "Error"} \cup FrameTypes

IdleGtp == [pc |-> "idle", frame |-> "", result |-> ""]

ProbeInit ==
    /\ gtp = [heartbeat |-> 0,
              thread |-> [p \in ProbedPeers |-> IdleGtp],
              alive |-> [p \in ProbedPeers |-> FALSE],
              hints_file |-> [p \in ProbedPeers |-> FALSE]]
    /\ fs = <<>>
    /\ locks = <<>>
    /\ thr = <<>>
    /\ oplog = <<>>
    /\ csv = <<>>
    /\ tmpcsv = {}
    /\ tally = <<>>
    /\ outcome = ""
    /\ conn = <<>>
    /\ lvl = <<>>
    /\ LaterIdle
    /\ RingIdle /\ GossipIdle /\ ClusterIdle

probeRest == <<ringVars, gossipVars, clusterVars, storeVars, connVars, levelVars, laterVars>>

\* the thread of peer p returns (or panics): it is joined by gossip_starter
GtpReturn(p, why, alive) ==
    gtp' = [gtp EXCEPT !.thread[p].pc = "done", !.thread[p].result = why,
                       !.alive[p] = alive]

\* gossip_starter: one iteration, once the threads of the last are joined
GossipRound ==
    /\ gtp.heartbeat < MaxHeartbeat
    /\ \A p \in ProbedPeers : gtp.thread[p].pc \in {"idle", "done"}
    /\ \E selected \in ChooseMultiple(ProbedPeers, 3) :
          gtp' = [gtp EXCEPT !.heartbeat = @ + 1,
                             !.thread = [p \in ProbedPeers |->
                                           IF p \in selected
                                           THEN [IdleGtp EXCEPT !.pc = "connect"]
                                           ELSE IdleGtp]]
    /\ UNCHANGED probeRest

\* TcpStream::connect(address)
GtpConnect(p, ok) ==
    /\ gtp.thread[p].pc = "connect"
    /\ IF ok THEN gtp' = [gtp EXCEPT !.thread[p].pc = "send"]
       ELSE GtpReturn(p, "connect failure", FALSE)
    /\ UNCHANGED probeRest

\* send_message(&mut stream, FrameType::Syn, &body)
GtpSend(p, ok) ==
    /\ gtp.thread[p].pc = "send"
    /\ IF ok THEN gtp' = [gtp EXCEPT !.thread[p].pc = "read"]
       ELSE GtpReturn(p, "send failure", FALSE)
    /\ UNCHANGED probeRest

\* read_inc_frame(&mut stream): a timeout, another error, or a frame
GtpRead(p, r) ==
    /\ gtp.thread[p].pc = "read"
    /\ CASE r = "TimedOut" -> GtpReturn(p, "read timeout", FALSE)
         [] r = "Error" -> GtpReturn(p, "read error", FALSE)
         [] OTHER -> gtp' = [gtp EXCEPT !.thread[p].pc = "match", !.thread[p].frame = r]
    /\ UNCHANGED probeRest

\* match frame: the Ack marks the peer alive (the relayed peers are the
\* matter of the gossip specification), any other frame marks it dead;
\* neither arm returns
GtpMatch(p) ==
    /\ gtp.thread[p].pc = "match"
    /\ IF gtp.thread[p].frame = "Ack"
       THEN gtp' = [gtp EXCEPT !.thread[p].pc = "hints", !.thread[p].result = "Ack",
                               !.alive[p] = TRUE]
       ELSE gtp' = [gtp EXCEPT !.thread[p].pc = "hints",
                               !.thread[p].result = "unexpected frame",
                               !.alive[p] = FALSE]
    /\ UNCHANGED probeRest

\* if has_hints(node_dir, peer_id) { handle_hinted_handoff(..) }
GtpHasHints(p) ==
    /\ gtp.thread[p].pc = "hints"
    /\ gtp' = [gtp EXCEPT !.thread[p].pc =
                 IF gtp.hints_file[p] THEN "flush" ELSE "done"]
    /\ UNCHANGED probeRest

\* handle_hinted_handoff: the file is read; the connect panics or the send
\* fails and the file stays, or the frame is sent and the file removed
GtpFlush(p, ok) ==
    /\ gtp.thread[p].pc = "flush"
    /\ gtp' = [gtp EXCEPT !.thread[p].pc = "done",
                          !.hints_file[p] = IF ok THEN FALSE ELSE @]
    /\ UNCHANGED probeRest

\* add_hint, by a connection thread whose connect to replica p failed
HintAdded(p) ==
    /\ ~gtp.hints_file[p]
    /\ gtp' = [gtp EXCEPT !.hints_file[p] = TRUE]
    /\ UNCHANGED probeRest

ProbeNext ==
    \/ GossipRound
    \/ \E p \in ProbedPeers : \E ok \in BOOLEAN : GtpConnect(p, ok)
    \/ \E p \in ProbedPeers : \E ok \in BOOLEAN : GtpSend(p, ok)
    \/ \E p \in ProbedPeers : \E r \in ReadOutcomes : GtpRead(p, r)
    \/ \E p \in ProbedPeers : GtpMatch(p)
    \/ \E p \in ProbedPeers : GtpHasHints(p)
    \/ \E p \in ProbedPeers : \E ok \in BOOLEAN : GtpFlush(p, ok)
    \/ \E p \in ProbedPeers : HintAdded(p)

SpecProbe == ProbeInit /\ [][ProbeNext]_vars

\* the thread of peer p is inside handle_hinted_handoff
FlushAttempted(p) == gtp.thread[p].pc = "flush"

(***************************************************************************)
(* C20: within a gossip tick, the flush of the hints of a probed peer is   *)
(* attempted only when the exchange of the probe ended with the Ack of     *)
(* the peer; after a connect failure, a send failure, a read timeout or a  *)
(* frame of another type no flush to the peer is attempted.                *)
(***************************************************************************)
C20_FlushOnlyAfterAck ==
    \A p \in ProbedPeers : FlushAttempted(p) => gtp.thread[p].result = "Ack"

\* the same, but for the frame of another type
C20_ExceptUnexpectedFrame ==
    \A p \in ProbedPeers :
        FlushAttempted(p) => gtp.thread[p].result \in {"Ack", "unexpected frame"}

(***************************************************************************)
(* The idle values of the variables of the ring, gossip, coordinator,      *)
(* store, connection, level and probe specifications.                      *)
(***************************************************************************)
EarlierIdle ==
    /\ fs = <<>>
    /\ locks = <<>>
    /\ thr = <<>>
    /\ oplog = <<>>
    /\ csv = <<>>
    /\ tmpcsv = {}
    /\ tally = <<>>
    /\ outcome = ""
    /\ conn = <<>>
    /\ lvl = <<>>
    /\ gtp = <<>>
    /\ RingIdle /\ GossipIdle /\ ClusterIdle

(***************************************************************************)
(* The hints directory of one node.  add_hint is given the ip_address of   *)
(* the replica, has_hints and handle_hinted_handoff the id of the peer;    *)
(* each names the file node_dir/hints/<name> with_extension("txt").  A     *)
(* name is the sequence of its parts between dots: Path::with_extension    *)
(* replaces what follows the last dot of the file name, or adds the        *)
(* extension when the name has no dot.  A hint is tagged with the peer it  *)
(* was recorded for; the file holds the query text alone.                  *)
(***************************************************************************)
MaxHints == 3

\* the peers of cassandra.json the node may have: id and ip_address
HintPeers ==
    { [id |-> <<"10", "0", "0", "1">>, ip_address |-> <<"10", "0", "0", "1">>],
      [id |-> <<"10", "0", "0", "2">>, ip_address |-> <<"10", "0", "0", "2">>],
      [id |-> <<"node3">>, ip_address |-> <<"node3">>],
      [id |-> <<"node4">>, ip_address |-> <<"10", "0", "1", "4">>] }

\* Path::with_extension("txt") on the file name
with_extension(name) ==
    IF Len(name) > 1
    THEN SubSeq(name, 1, Len(name) - 1) \o <<"txt">>
    ELSE name \o <<"txt">>

HintFileNames ==
    { with_extension(p.id) : p \in HintPeers } \cup
    { with_extension(p.ip_address) : p \in HintPeers }

IdleHintFlush == [pc |-> "idle", queries |-> <<>>]

HintsInit ==
    /\ \E ps \in SUBSET HintPeers :
          /\ Cardinality(ps) = 2
          /\ hdir = [peers |-> ps,
                     files |-> [f \in HintFileNames |-> None],
                     flush |-> [p \in ps |-> IdleHintFlush],
                     delivered |-> {},
                     panics |-> 0,
                     recorded |-> 0]
    /\ exe = <<>>
    /\ ddl = <<>>
    /\ lk = <<>>
    /\ rt = <<>>
    /\ rp = <<>>
    /\ EarlierIdle

earlierVars == <<ringVars, gossipVars, clusterVars, storeVars, connVars, levelVars, probeVars>>

hintsRest == <<earlierVars, exe, ddl, lk, rt, rp>>

\* client.rs: the connect to replica p failed and the query is no SELECT:
\* add_hint(node_dir, &node.ip_address, query_str)
HintRecord(p) ==
    /\ p \in hdir.peers
    /\ hdir.recorded < MaxHints
    /\ LET f == with_extension(p.ip_address)
           line == [for |-> p, n |-> hdir.recorded + 1]
       IN  hdir' = [hdir EXCEPT
                      !.files[f] = Some((IF @ = None THEN <<>> ELSE Unwrap(@)) \o <<line>>),
                      !.recorded = @ + 1]
    /\ UNCHANGED hintsRest

\* has_hints(node_dir, peer_id), and handle_hinted_handoff up to the
\* connect: the lines of the file are read
HintFlushRead(p) ==
    /\ p \in hdir.peers
    /\ hdir.flush[p].pc = "idle"
    /\ hdir.files[with_extension(p.id)] # None
    /\ hdir' = [hdir EXCEPT !.flush[p] =
                  [pc |-> "send", queries |-> Unwrap(hdir.files[with_extension(p.id)])]]
    /\ UNCHANGED hintsRest

\* the connect and the send of the Hinted frame to the peer; a connect that
\* fails panics and a send that fails returns: the file stays
HintFlushSend(p, ok) ==
    /\ p \in hdir.peers
    /\ hdir.flush[p].pc = "send"
    /\ IF ok
       THEN hdir' = [hdir EXCEPT
                       !.flush[p].pc = "remove",
                       !.delivered = @ \cup { [hint |-> hdir.flush[p].queries[i], to |-> p] :
                                                i \in DOMAIN hdir.flush[p].queries }]
       ELSE hdir' = [hdir EXCEPT !.flush[p] = IdleHintFlush]
    /\ UNCHANGED hintsRest

\* std::fs::remove_file(node_hints).unwrap()
HintFlushRemove(p) ==
    /\ p \in hdir.peers
    /\ hdir.flush[p].pc = "remove"
    /\ hdir' = [hdir EXCEPT
                  !.files[with_extension(p.id)] = None,
                  !.panics = IF hdir.files[with_extension(p.id)] = None /\ @ < MaxHints
                             THEN @ + 1 ELSE @,
                  !.flush[p] = IdleHintFlush]
    /\ UNCHANGED hintsRest

HintsNext ==
    \/ \E p \in HintPeers : HintRecord(p)
    \/ \E p \in HintPeers : HintFlushRead(p)
    \/ \E p \in HintPeers : \E ok \in BOOLEAN : HintFlushSend(p, ok)
    \/ \E p \in HintPeers : HintFlushRemove(p)

SpecHints == HintsInit /\ [][HintsNext]_vars

\* the hints the file of name f holds
HintsIn(f) == IF hdir.files[f] = None THEN {} ELSE Range(Unwrap(hdir.files[f]))

(***************************************************************************)
(* C21: hints are kept per peer: the hints of one file were all recorded   *)
(* for one peer, and a hint is only ever sent to the peer it was recorded  *)
(* for.                                                                    *)
(***************************************************************************)
C21_HintsKeptPerPeer ==
    /\ \A f \in HintFileNames : \A h1, h2 \in HintsIn(f) : h1.for = h2.for
    /\ \A d \in hdir.delivered : d.hint.for = d.to

\* the same for a node whose peers have names that differ before the last dot
C21_DistinctStems ==
    (\A p, q \in hdir.peers :
        p # q => with_extension(p.ip_address) # with_extension(q.ip_address)) =>
            C21_HintsKeptPerPeer

(***************************************************************************)
(* C22: every row a replica stores for an INSERT or UPDATE of a            *)
(* coordinator carries the last_update the coordinator added before the    *)
(* dispatch, whether the write was executed locally, forwarded or replayed *)
(* from a hint.                                                            *)
(***************************************************************************)
C22_RowsCarryLastUpdate ==
    \A n \in Nodes : \A i \in DOMAIN store[n] : store[n][i].last_update # NULL

\* the same for the rows no replayed hint has written
C22_UnlessReplayed ==
    hist.applied = {} => C22_RowsCarryLastUpdate

\* the rows of the responses of the fan-out, as the replicas returned them
ResponseRows ==
    UNION { Range(Unwrap(req.all_rows[k])) :
              k \in { m \in DOMAIN req.all_rows : req.all_rows[m] # None } }

\* the step writes a RESULT frame with rows to the client
SendsRows == req.pc = "loop" /\ resp'.kind = "RESULT" /\ resp'.rows # None

(***************************************************************************)
(* C23: no RESULT frame carries the last_update the coordinator added:     *)
(* each row sent has the columns the client asked for and no more, and is  *)
(* a row of a response with its trailing last_update removed.              *)
(***************************************************************************)
C23_ResultWithoutLastUpdate ==
    [][SendsRows =>
          \A i \in DOMAIN Unwrap(resp'.rows) :
              LET row == Unwrap(resp'.rows)[i]
              IN  /\ Len(row) = Len(req.orig.cols)
                  /\ \E full \in ResponseRows :
                        /\ Len(full) = Len(row) + 1
                        /\ SubSeq(full, 1, Len(row)) = row]_vars

C23_Witness ==
    /\ resp.kind = "RESULT" /\ resp.rows # None
    /\ Unwrap(resp.rows) # <<>>
    /\ \A i \in DOMAIN Unwrap(resp.rows) : Len(Unwrap(resp.rows)[i]) = 2

\* the connection of the client closed: the thread returned or panicked
\* (a coordinator that stopped altogether is left out)
ConnectionClosed == resp.kind \in {"RESULT", "ERROR", "PANIC"}

(***************************************************************************)
(* C24: a QUERY received on a started client connection is answered with   *)
(* one RESULT or ERROR frame before the connection closes, also when a     *)
(* replica accepts the internode connection and returns no Result frame.   *)
(***************************************************************************)
C24_QueryAnsweredBeforeClose ==
    ConnectionClosed => resp.kind \in {"RESULT", "ERROR"}

(***************************************************************************)
(* One statement of a client at a coordinator, from the QUERY frame to the *)
(* reply.  The keyspace has one table name, t, whose schema is a Int       *)
(* (partition key), c Int (clustering key), n Text.  The key has two       *)
(* replicas, the coordinator and one other node that is up or down; the    *)
(* ring puts either first.  A value is its text, "NULL" the text the store *)
(* writes for a column without value.                                      *)
(***************************************************************************)
MaxExecRows == 2

ExecCols == <<"a", "c", "n">>

PartitionKey == {"a"}

ClusteringKey == {"c"}

PrimaryKeyCols == PartitionKey \cup ClusteringKey

\* SchemaType::check_type for the column's type
TypeChecks(col, value) ==
    IF col \in {"a", "c"} THEN value \in {"1", "2"} ELSE TRUE

\* the values a client writes for a column
ExecValues(col) ==
    CASE col = "a" -> {"1", "x", "NULL"}
      [] col = "c" -> {"1"}
      [] col = "n" -> {"x"}

\* Comparator::Equal and Comparator::GreaterThan, column and value
Comparisons == { [col |-> "a", op |-> "=", val |-> "1"], [col |-> "a", op |-> "=", val |-> "2"],
                 [col |-> "a", op |-> "=", val |-> "x"], [col |-> "c", op |-> "=", val |-> "1"],
                 [col |-> "a", op |-> ">", val |-> "1"] }

\* WHERE clauses: one comparison, or two joined by AND
WhereClauses ==
    { <<k>> : k \in Comparisons } \cup { <<k, l>> : k, l \in Comparisons }

ExecInserts ==
    { [op |-> "INSERT", row |-> r, where |-> <<>>] :
        r \in { f \in UNION { [S -> {"1", "x", "NULL"}] : S \in (SUBSET Range(ExecCols)) \ {{}} } :
                  \A col \in DOMAIN f : f[col] \in ExecValues(col) } }

ExecStatements ==
    { [op |-> "CREATE", row |-> <<>>, where |-> <<>>],
      [op |-> "DROP", row |-> <<>>, where |-> <<>>] }
    \cup ExecInserts
    \cup { [op |-> "SELECT", row |-> <<>>, where |-> w] : w \in WhereClauses }
    \cup { [op |-> "DELETE", row |-> <<>>, where |-> w] : w \in WhereClauses }
    \cup { [op |-> "UPDATE", row |-> [col \in {"n"} |-> "y"], where |-> w] : w \in WhereClauses }
    \cup { [op |-> "UPDATE", row |-> [col \in {"a"} |-> "NULL"], where |-> w] : w \in WhereClauses }

ExecIsDdl(stmt) == stmt.op \in {"CREATE", "DROP"}

\* Query::get_keys filtered by the primary key: a pair per column of an
\* INSERT, a pair per comparison of a WHERE clause
KeysOf(stmt) ==
    IF stmt.op = "INSERT"
    THEN Cardinality(DOMAIN stmt.row \cap PrimaryKeyCols)
    ELSE Len(SelectSeq(stmt.where, LAMBDA k : k.col \in PrimaryKeyCols))

\* the primary-key columns the statement gives a value for
SuppliedKeys(stmt) ==
    IF stmt.op = "INSERT"
    THEN DOMAIN stmt.row \cap PrimaryKeyCols
    ELSE { stmt.where[i].col : i \in DOMAIN stmt.where } \cap PrimaryKeyCols

ExecOk(exists, rows) == [ok |-> TRUE, class |-> "", exists |-> exists, rows |-> rows]

ExecErr(class, exists, rows) ==
    [ok |-> FALSE, class |-> class, exists |-> exists, rows |-> rows]

\* WhereClause::process: whether the comparison fails with an error
CompFails(k, row) ==
    /\ row[k.col] # "NULL" /\ k.val # "NULL"
    /\ ~TypeChecks(k.col, row[k.col]) \/ ~TypeChecks(k.col, k.val)

\* a "NULL" on either side compares the texts; otherwise SchemaType::cmp decides
CompHolds(k, row) ==
    IF row[k.col] = "NULL" \/ k.val = "NULL" \/ k.op = "="
    THEN row[k.col] = k.val
    ELSE row[k.col] = "2" /\ k.val = "1"

\* the pairs of Query::get_keys on primary-key columns, as the handler sorts them:
\* a pair on the partition key moves in front of the pair before it
RoutingPairs(stmt) ==
    IF stmt.op = "INSERT"
    THEN <<[col |-> "a", val |-> stmt.row["a"]]>>
    ELSE LET ks == SelectSeq(stmt.where, LAMBDA k : k.col \in PrimaryKeyCols)
         IN  IF Len(ks) = 2 /\ ks[2].col \in PartitionKey THEN <<ks[2], ks[1]>> ELSE ks

\* key[0], the text handed to Partitioner::get_nodes
RoutingKey(stmt) ==
    IF stmt.op \in {"CREATE", "DROP"} THEN "ALL_NODES" ELSE RoutingPairs(stmt)[1].val

WhereFails(w, row) == \E i \in DOMAIN w : CompFails(w[i], row)

WhereHolds(w, row) == \A i \in DOMAIN w : CompHolds(w[i], row)

\* the line append_to_table and update_table build from a map of values
LineOf(data, old) ==
    [col \in Range(ExecCols) |->
        IF col \in DOMAIN data THEN data[col] ELSE old[col]]

NullRow == [col \in Range(ExecCols) |-> "NULL"]

LineFails(line) ==
    \E col \in Range(ExecCols) : line[col] # "NULL" /\ ~TypeChecks(col, line[col])

\* Query::process on the coordinator's own store
ExecProcess(stmt, exists, rows) ==
    CASE stmt.op = "CREATE" ->
            IF exists THEN ExecErr("AlreadyExists", exists, rows) ELSE ExecOk(TRUE, <<>>)
      [] stmt.op = "DROP" ->
            IF exists THEN ExecOk(FALSE, <<>>) ELSE ExecErr("NotFound", exists, rows)
      [] ~exists -> ExecErr("NotFound", exists, rows)
      [] stmt.op = "INSERT" ->
            IF LineFails(LineOf(stmt.row, NullRow))
            THEN ExecErr("Invalid", exists, rows)
            ELSE ExecOk(exists, Append(rows, LineOf(stmt.row, NullRow)))
      [] stmt.op = "SELECT" ->
            IF \E i \in DOMAIN rows : WhereFails(stmt.where, rows[i])
            THEN ExecErr("Invalid", exists, rows)
            ELSE ExecOk(exists, rows)
      [] stmt.op = "DELETE" ->
            IF \E i \in DOMAIN rows : WhereFails(stmt.where, rows[i])
            THEN ExecErr("Invalid", exists, rows)
            ELSE ExecOk(exists, SelectSeq(rows, LAMBDA r : ~WhereHolds(stmt.where, r)))
      [] stmt.op = "UPDATE" ->
            LET new == [i \in DOMAIN rows |->
                          IF WhereHolds(stmt.where, rows[i])
                          THEN LineOf(stmt.row, rows[i]) ELSE rows[i]]
            IN  IF \E i \in DOMAIN rows : WhereFails(stmt.where, rows[i]) \/ LineFails(new[i])
                THEN ExecErr("Invalid", exists, rows)
                ELSE ExecOk(exists, new)

NoReply ==
    [stmt |-> [op |-> "", row |-> <<>>, where |-> <<>>], kind |-> "", code |-> "",
     class |-> "", dispatch |-> {}, had_table |-> FALSE, route |-> ""]

ExecInit ==
    /\ exe = [exists |-> FALSE, rows |-> <<>>, last |-> NoReply]
    /\ hdir = <<>>
    /\ ddl = <<>>
    /\ lk = <<>>
    /\ rt = <<>>
    /\ rp = <<>>
    /\ EarlierIdle

execRest == <<earlierVars, hdir, ddl, lk, rt, rp>>

\* what the loop does for the other replica: the forward, or the hint of a
\* statement that is no SELECT
Remote(stmt, remoteUp) ==
    IF remoteUp THEN {"forward"}
    ELSE IF stmt.op # "SELECT" THEN {"hint"} ELSE {}

\* client.rs handle_connection for one QUERY frame
ExecQuery(stmt, remoteUp, localFirst) ==
    /\ stmt.op = "INSERT" => Len(exe.rows) < MaxExecRows
    /\ LET reply(kind, code, class, dispatch) ==
               [stmt |-> stmt, kind |-> kind, code |-> code, class |-> class,
                dispatch |-> dispatch, had_table |-> exe.exists,
                route |-> IF dispatch = {} THEN "" ELSE RoutingKey(stmt)]
           out == ExecProcess(stmt, exe.exists, exe.rows)
           before == IF localFirst THEN {} ELSE Remote(stmt, remoteUp)
           after == IF localFirst THEN Remote(stmt, remoteUp) ELSE {}
       IN  IF ~ExecIsDdl(stmt) /\ ~exe.exists
           THEN exe' = [exe EXCEPT !.last = reply("PANIC", "", "", {})]
           ELSE IF ~ExecIsDdl(stmt) /\ KeysOf(stmt) # Cardinality(PrimaryKeyCols)
           THEN exe' = [exe EXCEPT !.last = reply("ERROR", "Invalid", "", {})]
           ELSE IF ~out.ok
           THEN exe' = [exe EXCEPT !.last =
                          reply("ERROR", "AlreadyExists", out.class, before \cup {"local"})]
           ELSE exe' = [exists |-> out.exists, rows |-> out.rows,
                        last |-> reply("RESULT", "", "", before \cup {"local"} \cup after)]
    /\ UNCHANGED execRest

ExecNext ==
    \E stmt \in ExecStatements : \E remoteUp, localFirst \in BOOLEAN :
        ExecQuery(stmt, remoteUp, localFirst)

SpecExec == ExecInit /\ [][ExecNext]_vars

\* the reply is the ERROR frame of a failure of the local execution
LocalFailure == exe.last.kind = "ERROR" /\ exe.last.class # ""

(***************************************************************************)
(* C25: when the execution of a query fails on the coordinator's own       *)
(* replica, the ERROR frame carries the code of the class of the failure:  *)
(* Invalid or SyntaxError for an invalid query, AlreadyExists only for a   *)
(* CREATE of an existing table, ServerError for a missing table.           *)
(***************************************************************************)
C25_ErrorCodeOfClass ==
    LocalFailure =>
        /\ exe.last.class = "Invalid" => exe.last.code \in {"Invalid", "SyntaxError"}
        /\ exe.last.code = "AlreadyExists" =>
              exe.last.stmt.op = "CREATE" /\ exe.last.class = "AlreadyExists"
        /\ exe.last.class = "NotFound" => exe.last.code \in {"ServerError", "NotFound"}

\* the same for the CREATE of an existing table alone
C25_CreateExisting ==
    (LocalFailure /\ exe.last.class = "AlreadyExists") =>
        exe.last.code = "AlreadyExists" /\ exe.last.stmt.op = "CREATE"

\* the last statement is no DDL, its table exists and it leaves a column
\* of the primary key without value
KeyNotSupplied ==
    /\ exe.last.kind # "" /\ ~ExecIsDdl(exe.last.stmt) /\ exe.last.had_table
    /\ SuppliedKeys(exe.last.stmt) # PrimaryKeyCols

(***************************************************************************)
(* C26: a query that is no DDL and does not give a value for every         *)
(* partition-key and clustering-key column of its table is answered with   *)
(* ERROR(Invalid) and is not executed locally, forwarded or recorded as a  *)
(* hint.                                                                   *)
(***************************************************************************)
C26_KeyColumnsRequired ==
    KeyNotSupplied =>
        /\ exe.last.kind = "ERROR" /\ exe.last.code = "Invalid"
        /\ exe.last.dispatch = {}

\* the same for INSERT, whose columns are the keys of a map
C26_ForInsert ==
    (KeyNotSupplied /\ exe.last.stmt.op = "INSERT") =>
        /\ exe.last.kind = "ERROR" /\ exe.last.code = "Invalid"
        /\ exe.last.dispatch = {}

(***************************************************************************)
(* C27: in every row of the table, after any sequence of writes, each      *)
(* partition-key column holds a value that is present (not "NULL") and     *)
(* valid for the type of the column.                                       *)
(***************************************************************************)
C27_PartitionKeyPresentAndValid ==
    \A i \in DOMAIN exe.rows : \A col \in PartitionKey :
        exe.rows[i][col] # "NULL" /\ TypeChecks(col, exe.rows[i][col])

\* the same without the condition of presence
C27_ValidWhenPresent ==
    \A i \in DOMAIN exe.rows : \A col \in PartitionKey :
        exe.rows[i][col] # "NULL" => TypeChecks(col, exe.rows[i][col])

(***************************************************************************)
(* CREATE TABLE u and DROP TABLE u on the ring.  For a DDL statement the   *)
(* key is ALL_NODES and get_nodes returns the ring in its order; the loop  *)
(* of handle_connection processes the statement on the coordinator,        *)
(* forwards it to each other node, and records a hint for a node whose     *)
(* connect fails.  A replica whose process(..) fails panics in node.rs and *)
(* closes the connection; the coordinator then panics reading the Result.  *)
(***************************************************************************)
MaxDdl == 3

MaxDdlStops == 1

DdlOps == {"CREATE", "DROP"}

IdleDdl == [pc |-> "idle", coord |-> 0, op |-> "", idx |-> 0, acks |-> 0,
            all_alive |-> FALSE, consistent |-> FALSE]

DdlInit ==
    /\ ddl = [exists |-> [n \in Nodes |-> FALSE],
              up |-> [n \in Nodes |-> TRUE],
              hints |-> [c \in Nodes |-> [p \in Nodes |-> <<>>]],
              req |-> IdleDdl,
              kind |-> "",
              count |-> 0,
              stops |-> 0]
    /\ hdir = <<>>
    /\ exe = <<>>
    /\ lk = <<>>
    /\ rt = <<>>
    /\ rp = <<>>
    /\ EarlierIdle

ddlRest == <<earlierVars, hdir, exe, lk, rt, rp>>

\* create_table and drop_table on a catalogue: whether they return Ok
DdlSucceeds(op, exists) == IF op = "CREATE" THEN ~exists ELSE exists

DdlDone(kind) == [ddl EXCEPT !.req = IdleDdl, !.kind = kind]

\* get_nodes(ALL_NODES): the ring, in its order
AllNodes == [i \in 1..ReplicationFactor |-> i]

\* every node has the same catalogue and no hint waits in a file
CatalogueConsistent ==
    /\ \A n, m \in Nodes : ddl.exists[n] = ddl.exists[m]
    /\ \A c, p \in Nodes : ddl.hints[c][p] = <<>>

\* the QUERY frame of a CREATE TABLE or DROP TABLE arrives at node c
DdlQuery(c, op) ==
    /\ ddl.req.pc = "idle" /\ ddl.up[c]
    /\ ddl.count < MaxDdl
    /\ ddl' = [ddl EXCEPT !.req = [pc |-> "loop", coord |-> c, op |-> op, idx |-> 1,
                                   acks |-> 0,
                                   all_alive |-> \A n \in Nodes : ddl.up[n],
                                   consistent |-> CatalogueConsistent],
                          !.kind = "",
                          !.count = @ + 1]
    /\ UNCHANGED ddlRest

DdlTarget == AllNodes[ddl.req.idx]

\* partitioner.is_me(node): query.process on the coordinator
DdlLocal ==
    /\ ddl.req.pc = "loop" /\ ddl.req.idx <= Len(AllNodes)
    /\ DdlTarget = ddl.req.coord
    /\ IF DdlSucceeds(ddl.req.op, ddl.exists[DdlTarget])
       THEN ddl' = [ddl EXCEPT !.exists[DdlTarget] = (ddl.req.op = "CREATE"),
                               !.req.acks = @ + 1, !.req.idx = @ + 1]
       ELSE ddl' = DdlDone("ERROR")
    /\ UNCHANGED ddlRest

\* the connect fails: add_hint, the statement being no SELECT
DdlConnectFail ==
    /\ ddl.req.pc = "loop" /\ ddl.req.idx <= Len(AllNodes)
    /\ DdlTarget # ddl.req.coord /\ ~ddl.up[DdlTarget]
    /\ ddl' = [ddl EXCEPT !.hints[ddl.req.coord][DdlTarget] = Append(@, ddl.req.op),
                          !.req.idx = @ + 1]
    /\ UNCHANGED ddlRest

\* the connect succeeds, the Query frame is sent and processed by the node
\* (node.rs: process(..).unwrap()), and the Result frame read (unwrap)
DdlForward ==
    /\ ddl.req.pc = "loop" /\ ddl.req.idx <= Len(AllNodes)
    /\ DdlTarget # ddl.req.coord /\ ddl.up[DdlTarget]
    /\ IF DdlSucceeds(ddl.req.op, ddl.exists[DdlTarget])
       THEN ddl' = [ddl EXCEPT !.exists[DdlTarget] = (ddl.req.op = "CREATE"),
                               !.req.acks = @ + 1, !.req.idx = @ + 1]
       ELSE ddl' = DdlDone("PANIC")
    /\ UNCHANGED ddlRest

\* after the loop: the check of the consistency level, then the RESULT
DdlRespond(cl) ==
    /\ ddl.req.pc = "loop" /\ ddl.req.idx > Len(AllNodes)
    /\ ddl' = DdlDone(IF NotEnoughNodes(ddl.req.acks, cl) THEN "ERROR" ELSE "RESULT")
    /\ UNCHANGED ddlRest

\* the statements of a Hinted frame on a catalogue, up to the first that
\* fails (the thread of the node panics)
RECURSIVE ReplayDdl(_, _)
ReplayDdl(ops, exists) ==
    IF ops = <<>> \/ ~DdlSucceeds(Head(ops), exists) THEN exists
    ELSE ReplayDdl(Tail(ops), Head(ops) = "CREATE")

\* handle_hinted_handoff of node c for peer p, and node.rs at the peer
DdlFlush(c, p) ==
    /\ c # p /\ ddl.up[c] /\ ddl.up[p]
    /\ ddl.hints[c][p] # <<>>
    /\ ddl' = [ddl EXCEPT !.exists[p] = ReplayDdl(ddl.hints[c][p], @),
                          !.hints[c][p] = <<>>]
    /\ UNCHANGED ddlRest

\* a node stops: a request it coordinates ends with it
DdlStop(n) ==
    /\ ddl.up[n] /\ ddl.stops < MaxDdlStops
    /\ \A m \in Nodes \ {n} : ddl.up[m]
    /\ ddl' = [ddl EXCEPT !.up[n] = FALSE,
                          !.stops = @ + 1,
                          !.req = IF ddl.req.pc # "idle" /\ ddl.req.coord = n
                                  THEN IdleDdl
                                  ELSE [@ EXCEPT !.all_alive = FALSE],
                          !.kind = IF ddl.req.pc # "idle" /\ ddl.req.coord = n
                                   THEN "LOST" ELSE @]
    /\ UNCHANGED ddlRest

DdlStart(n) ==
    /\ ~ddl.up[n]
    /\ ddl' = [ddl EXCEPT !.up[n] = TRUE]
    /\ UNCHANGED ddlRest

DdlNext ==
    \/ \E c \in Nodes : \E op \in DdlOps : DdlQuery(c, op)
    \/ DdlLocal
    \/ DdlConnectFail
    \/ DdlForward
    \/ \E cl \in ConsistencyLevels : DdlRespond(cl)
    \/ \E c, p \in Nodes : DdlFlush(c, p)
    \/ \E n \in Nodes : DdlStop(n)
    \/ \E n \in Nodes : DdlStart(n)

SpecDdl == DdlInit /\ [][DdlNext]_vars

\* the step ends a request during which every node was alive
EndsAllAlive(op) ==
    /\ ddl.req.pc # "idle" /\ ddl.req.op = op /\ ddl.req.all_alive
    /\ ddl'.req.pc = "idle" /\ ddl'.kind # "LOST"

(***************************************************************************)
(* C28: with all nodes alive, a CREATE TABLE issued to any node leaves the *)
(* table existing on every node of the ring, and a DROP TABLE issued to    *)
(* any node leaves it removed on every node, whichever node coordinates.   *)
(***************************************************************************)
C28_DdlReachesEveryNode ==
    [][/\ EndsAllAlive("CREATE") => \A n \in Nodes : ddl'.exists[n]
       /\ EndsAllAlive("DROP") => \A n \in Nodes : ~ddl'.exists[n]]_vars

\* the same for a statement that succeeds on the coordinator and starts
\* from catalogues that agree, with no hint waiting
C28_FromAgreeingCatalogues ==
    [][/\ (EndsAllAlive("CREATE") /\ ddl.req.consistent /\ ddl'.kind = "RESULT") =>
              \A n \in Nodes : ddl'.exists[n]
       /\ (EndsAllAlive("DROP") /\ ddl.req.consistent /\ ddl'.kind = "RESULT") =>
              \A n \in Nodes : ~ddl'.exists[n]]_vars

(***************************************************************************)
(* The RwLocks of one node.  The node runs a client handler (client.rs),   *)
(* an internode handler (node.rs), the gossip_starter thread and the       *)
(* gossip_to_peer threads it spawns and joins.  A thread is the list of    *)
(* lock operations its code has left; guards released at the same scope    *)
(* end are released in one step.                                           *)
(***************************************************************************)
LockPeers == {"A", "B"}

PeerOrder == <<"A", "B">>

\* GossipManager::new: the peers of the configuration file
ConfiguredPeers == {"A"}

LockNames == {"ctx", "tables", "schema", "manager", "self_node"} \cup LockPeers

Handlers == {"client", "internode"}

ProbeOf(p) == IF p = "A" THEN "gossip_to_peer A" ELSE "gossip_to_peer B"

PeerOf(t) == IF t = "gossip_to_peer A" THEN "A" ELSE "B"

Probers == {ProbeOf(p) : p \in LockPeers}

LockThreads == Handlers \cup {"gossip_starter"} \cup Probers

Rd(l) == [op |-> "r", l |-> l, ls |-> {}]

Wr(l) == [op |-> "w", l |-> l, ls |-> {}]

Un(ls) == [op |-> "u", l |-> "", ls |-> ls]

Unwind == [op |-> "panic", l |-> "", ls |-> {}]

Ex(op, l, ls) == [op |-> op, l |-> l, ls |-> ls]

\* a TcpStream::connect, send_message or read_inc_frame of the named frame
Net(frame) == Ex("net", frame, {})

\* has_hints, then handle_hinted_handoff: connect and send the Hinted frame
FlushHints(pending) == IF pending THEN <<Net("Hinted")>> ELSE <<>>

\* the peers of a set, in the order of the iteration
PeerSeq(ps) == SelectSeq(PeerOrder, LAMBDA p : p \in ps)

\* the operations of a loop over peers, body by body
EachPeer(ps, body) == Flatten([i \in 1..Len(PeerSeq(ps)) |-> body[PeerSeq(ps)[i]]])

\* client.rs 59-63: the schema of the table, read under the context read guard
SchemaLookup == <<Rd("ctx"), Rd("tables"), Rd("schema"), Un({"schema", "tables", "ctx"})>>

\* get_table_schema(..).unwrap() on a table that does not exist
SchemaMissing == <<Rd("ctx"), Rd("tables"), Un({"tables"}), Unwind>>

\* Tables::read_table under the context write guard
ProcessSelect == <<Wr("ctx"), Rd("tables"), Rd("schema"), Un({"schema", "tables", "ctx"})>>

\* Tables::append_to_table and update_table: the table's read guard, then its write guard
ProcessInsert ==
    <<Wr("ctx"), Rd("tables"), Rd("schema"), Un({"schema"}), Wr("schema"),
      Un({"schema", "tables", "ctx"})>>

\* Tables::create_table
ProcessCreate == <<Wr("ctx"), Rd("tables"), Un({"tables"}), Wr("tables"), Un({"tables", "ctx"})>>

\* Tables::drop_table
ProcessDrop ==
    <<Wr("ctx"), Rd("tables"), Wr("schema"), Un({"schema", "tables"}), Wr("tables"),
      Un({"tables", "ctx"})>>

\* a statement the catalogue refuses: create_table of a table that exists
ProcessFails == <<Wr("ctx"), Rd("tables"), Un({"tables"})>>

\* client.rs 143: the hints directory, read from the context
AddHintDir == <<Rd("ctx"), Un({"ctx"})>>

\* client.rs 128-151: connect to the replica, send the Query, read its Result
ForwardQuery == <<Net("Query")>>

\* client.rs: the lock scopes of handle_connection, for a statement on a table;
\* a local failure drops the guard
ClientBlocks ==
    {SchemaLookup, SchemaMissing, ProcessInsert, ProcessDrop,
     ProcessFails \o <<Un({"ctx"})>>, AddHintDir, ForwardQuery}

\* node.rs 46-58, 63-74: process(.., &mut ctx.write().unwrap()).unwrap()
\* and the Result sent once the statement's guard is dropped
InternodeBlocks ==
    {ProcessSelect \o <<Net("Result")>>, ProcessCreate \o <<Net("Result")>>,
     ProcessFails \o <<Unwind>>}

\* node.rs 59-62, handler.rs 29-36: the context read guard lives through handle_gossip
SynArm(s, kp) ==
    <<Rd("ctx"), Rd("manager"), Rd("self_node"), Un({"self_node"}), Ex("handle_gossip", s, kp)>>

\* the insertions under the manager's write guard, one per new peer
InsertNewPeers(new) ==
    IF new = {} THEN <<>>
    ELSE <<Wr("manager")>>
         \o EachPeer(new, [q \in LockPeers |-> <<Ex("add_peer", q, {}), Wr(q), Un({q})>>])
         \o <<Un({"manager"})>>

\* handler.rs 38-98, under the manager's read guard, for the peers known then; the Ack
\* is sent and the sender's hints are flushed before handle_gossip returns
HandleGossipCode(s, kp, known, pending) ==
    (IF s \in known THEN <<Wr(s), Un({s})>> ELSE <<>>)
    \o EachPeer(known, [p \in LockPeers |-> <<Rd(p), Un({p})>>])
    \o EachPeer(kp \cap known, [q \in LockPeers |-> <<Wr(q), Un({q})>>])
    \o <<Un({"manager"})>>
    \o InsertNewPeers(({s} \cup kp) \ known)
    \o <<Net("Ack")>>
    \o FlushHints(pending)
    \o <<Un({"ctx"})>>

\* starter.rs 29-31
TickCode == <<Rd("manager"), Wr("self_node"), Un({"self_node"}), Ex("select", "", {})>>

\* starter.rs 32-62: every peer is read, then a thread is spawned per selected peer
SelectCode(known) ==
    EachPeer(known, [p \in LockPeers |-> <<Rd(p), Un({p})>>])
    \o <<Un({"manager"}), Ex("spawn", "", known)>>

\* starter.rs 79-81
ProbeCode == <<Rd("manager"), Rd("self_node"), Ex("syn", "", {})>>

\* starter.rs 82-101: the Syn lists every peer, read under the self_node guard
SynCode(known) ==
    EachPeer(known, [q \in LockPeers |-> <<Rd(q), Un({q})>>])
    \o <<Un({"self_node", "manager"}), Ex("io", "", {})>>

\* starter.rs 103-137, 176-181: the peer is marked dead
MarkPeerDead(p) == <<Rd("manager"), Wr(p), Un({p, "manager"})>>

\* starter.rs 139-146: the Ack arm, up to the peer's write guard
AckArm(p, relayed) == <<Rd("manager"), Wr(p), Ex("ack", "", relayed)>>

\* starter.rs 148-175: the relayed peers, under the write guard of the probed peer;
\* the Ack relays this node itself, which the Syn does not list
AckCode(p, relayed, known, pending) ==
    <<Rd("self_node"), Un({"self_node"})>>
    \o EachPeer(relayed,
                [q \in LockPeers |->
                    <<Rd("self_node"), Un({"self_node"})>>
                    \o (IF q \in known THEN <<Wr(q), Un({q})>> ELSE <<>>)])
    \o <<Un({p, "manager"})>>
    \o InsertNewPeers(relayed \ known)
    \o FlushHints(pending)

LocksInit ==
    /\ lk = [todo |-> [t \in LockThreads |-> <<>>],
             st |-> [t \in LockThreads |-> "idle"],
             held |-> [t \in LockThreads |-> {}],
             poisoned |-> {},
             known |-> ConfiguredPeers,
             syn |-> [t \in Probers |-> {}]]
    /\ hdir = <<>>
    /\ exe = <<>>
    /\ ddl = <<>>
    /\ rt = <<>>
    /\ rp = <<>>
    /\ EarlierIdle

locksRest == <<earlierVars, hdir, exe, ddl, rt, rp>>

Running(t) == lk.st[t] = "run" /\ lk.todo[t] # <<>>

NextOp(t) == Head(lk.todo[t])

Requests(t) == Running(t) /\ NextOp(t).op \in {"r", "w"}

Holders(l) == {u \in LockThreads : \E m \in {"r", "w"} : <<l, m>> \in lk.held[u]}

Writers(l) == {u \in LockThreads : <<l, "w">> \in lk.held[u]}

\* std::sync::RwLock: a writer excludes every guard, a reader excludes writers
Available(l, m) == IF m = "w" THEN Holders(l) = {} ELSE Writers(l) = {}

\* the guards a panicking thread drops poison the locks it held for writing
PoisonedBy(t) == {l \in LockNames : <<l, "w">> \in lk.held[t]}

Begin(t, code) ==
    lk' = [lk EXCEPT !.todo[t] = code, !.st[t] = "run"]

\* a connection accepted on the client port
ClientStart(blk) ==
    /\ lk.st["client"] = "idle"
    /\ Begin("client", blk)
    /\ UNCHANGED locksRest

\* a Query or Hinted frame accepted on the internode port
InternodeQuery(blk) ==
    /\ lk.st["internode"] = "idle"
    /\ Begin("internode", blk)
    /\ UNCHANGED locksRest

\* a Syn frame accepted on the internode port: its sender lists the other peers
InternodeSyn(s) ==
    /\ lk.st["internode"] = "idle"
    /\ Begin("internode", SynArm(s, LockPeers \ {s}))
    /\ UNCHANGED locksRest

\* gossip_starter wakes up
TickStart ==
    /\ lk.st["gossip_starter"] = "idle"
    /\ Begin("gossip_starter", TickCode)
    /\ UNCHANGED locksRest

\* read() or write() returns the guard
Acquire(t) ==
    /\ Requests(t)
    /\ NextOp(t).l \notin lk.poisoned
    /\ Available(NextOp(t).l, NextOp(t).op)
    /\ lk' = [lk EXCEPT !.held[t] = @ \cup {<<NextOp(t).l, NextOp(t).op>>},
                        !.todo[t] = Tail(@)]
    /\ UNCHANGED locksRest

\* read() or write() returns a PoisonError and unwrap() panics
Refused(t) ==
    /\ Requests(t)
    /\ NextOp(t).l \in lk.poisoned
    /\ Available(NextOp(t).l, NextOp(t).op)
    /\ lk' = [lk EXCEPT !.held[t] = {},
                        !.poisoned = @ \cup PoisonedBy(t),
                        !.todo[t] = <<>>,
                        !.st[t] = "refused"]
    /\ UNCHANGED locksRest

\* guards go out of scope
Release(t) ==
    /\ Running(t)
    /\ NextOp(t).op = "u"
    /\ lk' = [lk EXCEPT !.held[t] = {g \in @ : g[1] \notin NextOp(t).ls},
                        !.todo[t] = Tail(@)]
    /\ UNCHANGED locksRest

\* unwrap() of an Err: the thread unwinds and drops its guards
Panic(t) ==
    /\ Running(t)
    /\ NextOp(t).op = "panic"
    /\ lk' = [lk EXCEPT !.held[t] = {},
                        !.poisoned = @ \cup PoisonedBy(t),
                        !.todo[t] = <<>>,
                        !.st[t] = "panicked"]
    /\ UNCHANGED locksRest

\* handle_gossip, under the manager's read guard
HandleGossip(pending) ==
    /\ Running("internode")
    /\ NextOp("internode").op = "handle_gossip"
    /\ lk' = [lk EXCEPT !.todo["internode"] =
                  HandleGossipCode(NextOp("internode").l, NextOp("internode").ls, lk.known,
                                   pending)]
    /\ UNCHANGED locksRest

\* GossipManager::add_peer, under the manager's write guard
AddPeer(t) ==
    /\ Running(t)
    /\ NextOp(t).op = "add_peer"
    /\ lk' = [lk EXCEPT !.known = @ \cup {NextOp(t).l}, !.todo[t] = Tail(@)]
    /\ UNCHANGED locksRest

\* gossip_starter reads its peers
TickSelect ==
    /\ Running("gossip_starter")
    /\ NextOp("gossip_starter").op = "select"
    /\ lk' = [lk EXCEPT !.todo["gossip_starter"] = SelectCode(lk.known)]
    /\ UNCHANGED locksRest

\* thread::spawn of gossip_to_peer for each selected peer
TickSpawn ==
    /\ Running("gossip_starter")
    /\ NextOp("gossip_starter").op = "spawn"
    /\ lk' = [lk EXCEPT
                !.todo = [t \in LockThreads |->
                            IF t \in Probers /\ PeerOf(t) \in NextOp("gossip_starter").ls
                            THEN ProbeCode
                            ELSE IF t = "gossip_starter" THEN <<>> ELSE @[t]],
                !.st = [t \in LockThreads |->
                            IF t \in Probers /\ PeerOf(t) \in NextOp("gossip_starter").ls
                            THEN "run"
                            ELSE IF t = "gossip_starter" THEN "join" ELSE @[t]]]
    /\ UNCHANGED locksRest

\* thread.join() of every probe, then the sleep
TickJoin ==
    /\ lk.st["gossip_starter"] = "join"
    /\ \A t \in Probers : lk.st[t] = "idle"
    /\ lk' = [lk EXCEPT !.st["gossip_starter"] = "idle"]
    /\ UNCHANGED locksRest

\* gossip_to_peer builds its Syn
ProbeSyn(t) ==
    /\ t \in Probers
    /\ Running(t)
    /\ NextOp(t).op = "syn"
    /\ lk' = [lk EXCEPT !.syn[t] = lk.known, !.todo[t] = SynCode(lk.known)]
    /\ UNCHANGED locksRest

\* connect, send and read: a failure, or an Ack that relays peers the Syn did not list
ProbeIo(t, ack, relayed) ==
    /\ t \in Probers
    /\ Running(t)
    /\ NextOp(t).op = "io"
    /\ relayed \subseteq LockPeers \ lk.syn[t]
    /\ lk' = [lk EXCEPT !.todo[t] = IF ack THEN AckArm(PeerOf(t), relayed)
                                    ELSE MarkPeerDead(PeerOf(t))]
    /\ UNCHANGED locksRest

\* the Ack arm, under the peer's write guard
ProbeRelayed(t, pending) ==
    /\ t \in Probers
    /\ Running(t)
    /\ NextOp(t).op = "ack"
    /\ lk' = [lk EXCEPT !.todo[t] = AckCode(PeerOf(t), NextOp(t).ls, lk.known, pending)]
    /\ UNCHANGED locksRest

\* a connect, a send or a read on a TcpStream
NetIo(t) ==
    /\ Running(t)
    /\ NextOp(t).op = "net"
    /\ lk' = [lk EXCEPT !.todo[t] = Tail(@)]
    /\ UNCHANGED locksRest

\* the thread returns
Return(t) ==
    /\ t \in Handlers \cup Probers
    /\ lk.st[t] = "run"
    /\ lk.todo[t] = <<>>
    /\ lk' = [lk EXCEPT !.st[t] = "idle",
                        !.syn = [u \in Probers |-> IF u = t THEN {} ELSE @[u]]]
    /\ UNCHANGED locksRest

\* the accept loop spawns a thread for the next connection
Accept(t) ==
    /\ t \in Handlers
    /\ lk.st[t] \in {"refused", "panicked"}
    /\ lk' = [lk EXCEPT !.st[t] = "idle"]
    /\ UNCHANGED locksRest

LocksNext ==
    \/ \E blk \in ClientBlocks : ClientStart(blk)
    \/ \E blk \in InternodeBlocks : InternodeQuery(blk)
    \/ \E s \in LockPeers : InternodeSyn(s)
    \/ TickStart
    \/ \E t \in LockThreads : Acquire(t)
    \/ \E t \in LockThreads : Refused(t)
    \/ \E t \in LockThreads : Release(t)
    \/ \E t \in LockThreads : Panic(t)
    \/ \E pending \in BOOLEAN : HandleGossip(pending)
    \/ \E t \in LockThreads : AddPeer(t)
    \/ TickSelect
    \/ TickSpawn
    \/ TickJoin
    \/ \E t \in Probers : ProbeSyn(t)
    \/ \E t \in Probers : \E ack \in BOOLEAN : \E relayed \in SUBSET LockPeers :
          ProbeIo(t, ack, relayed)
    \/ \E t \in Probers : \E pending \in BOOLEAN : ProbeRelayed(t, pending)
    \/ \E t \in LockThreads : NetIo(t)
    \/ \E t \in LockThreads : Return(t)
    \/ \E t \in Handlers : Accept(t)

SpecLocks == LocksInit /\ [][LocksNext]_vars

\* the threads that keep a request of t from being granted: the holders of the lock
\* and, for a reader, the writers that wait for it
Blockers(t) ==
    IF NextOp(t).op = "w"
    THEN Holders(NextOp(t).l)
    ELSE Writers(NextOp(t).l)
         \cup {u \in LockThreads \ {t} : Requests(u) /\ NextOp(u) = Wr(NextOp(t).l)}

\* a set of threads each of which waits for a thread of the set
CircularWait ==
    \E S \in SUBSET LockThreads :
        /\ S # {}
        /\ \A t \in S : Requests(t) /\ Blockers(t) \cap S # {}

C29_NoCircularWait == ~CircularWait

Tier(l) ==
    CASE l = "ctx" -> "context"
      [] l = "tables" -> "catalogue"
      [] l = "schema" -> "table"
      [] l = "manager" -> "manager"
      [] l = "self_node" -> "self"
      [] OTHER -> "peer"

Tiers == {Tier(l) : l \in LockNames}

HeldIn(t, tier) == {l \in LockNames : Tier(l) = tier /\ t \in Holders(l)}

\* C30: a thread holds at most one lock of each tier at a time, the context lock and
\* the catalogue lock counted apart, and the lock of the node's own Peer apart from
\* the locks of the peers map
C30_OneLockPerTier ==
    \A t \in LockThreads : \A tier \in Tiers : Cardinality(HeldIn(t, tier)) <= 1

\* C30, for the tiers other than the peers map, where two locks are held at most
C30_ExceptRelayedPeers ==
    \A t \in LockThreads : \A tier \in Tiers :
        Cardinality(HeldIn(t, tier)) <= (IF tier = "peer" THEN 2 ELSE 1)

\* a thread about to connect, send or read on a socket
OnNetwork(t) == Running(t) /\ NextOp(t).op \in {"net", "io"}

\* C31: no thread holds a context, catalogue, table, manager or peer lock while it
\* connects, sends or receives
C31_NoLockAcrossNetwork == \A t \in LockThreads : OnNetwork(t) => lk.held[t] = {}

\* C31, for the locks other than the context lock of the handler of a Syn
C31_ExceptSynContextGuard ==
    \A t \in LockThreads :
        OnNetwork(t) =>
            \/ lk.held[t] = {}
            \/ t = "internode" /\ lk.held[t] = {<<"ctx", "r">>}
                               /\ NextOp(t).l \in {"Ack", "Hinted"}

(***************************************************************************)
(* UPDATE on the row file of SpecRows.                                     *)
(***************************************************************************)
\* the rows read_table yields: the records after the header
DataRecords(bytes) == Tail(Records(bytes))

UpdateStatements == {st \in RowStatements : st.kind = "update"}

\* the value of a column of a row that was read
Field(rec, col) == ColumnOf(rec, get_columns(Header), col)

\* the row after the statement: the assigned column of a matching row holds the new
\* value, every other field is the one read before
UpdatedAs(st, old, new) ==
    /\ Len(new) = Len(old)
    /\ Field(new, <<"i">>) = Field(old, <<"i">>)
    /\ Field(new, <<"n">>) = IF Field(old, <<"i">>) = Some(st.k) THEN Some(st.v)
                               ELSE Field(old, <<"n">>)

\* C33: an UPDATE leaves as many rows as it found, in the same order; the rows its
\* WHERE clause does not match are unchanged and the rows it matches differ in the
\* assigned column only; an UPDATE that matches no row adds none
C33_UpdateKeepsRows ==
    [][\A st \in UpdateStatements :
          RowRewrite(st) /\ outcome' = "ok" =>
              /\ Len(DataRecords(csv')) = Len(DataRecords(csv))
              /\ \A j \in DOMAIN DataRecords(csv) :
                    UpdatedAs(st, DataRecords(csv)[j], DataRecords(csv')[j])]_vars

\* an UPDATE has rewritten a file of two rows, matching one: the field it assigned is
\* quoted as csv::Writer quotes it, which no append writes
C33_Witness ==
    /\ outcome = "ok"
    /\ tally.appends = 2
    /\ tally.removed = 0
    /\ Len(DataRecords(csv)) = 2
    /\ Field(DataRecords(csv)[1], <<"i">>) = Some(<<"1">>)
    /\ Field(DataRecords(csv)[1], <<"n">>) = Some(<<Comma>>)
    /\ Field(DataRecords(csv)[2], <<"i">>) = Some(<<"2">>)
    /\ Field(DataRecords(csv)[2], <<"n">>) = Some(<<"x">>)
    /\ \E j \in DOMAIN csv :
          j + 2 <= Len(csv) /\ csv[j] = Quote /\ csv[j + 1] = Comma /\ csv[j + 2] = Quote

(***************************************************************************)
(* The responses of the replicas, on the requests of SpecCluster:          *)
(* req.all_rows holds what process returned at each replica that answered. *)
(***************************************************************************)
\* C34: a SELECT executed on a replica yields Some(rows), never None, also when no
\* row matches
C34_SelectYieldsSome ==
    req.pc # "idle" /\ req.query.op = "SELECT" =>
        \A i \in DOMAIN req.all_rows : req.all_rows[i] # None

\* C34, for the writes: an INSERT or an UPDATE yields None at every replica
C34_WritesYieldNone ==
    req.pc # "idle" /\ req.query.op # "SELECT" =>
        \A i \in DOMAIN req.all_rows : req.all_rows[i] = None

(***************************************************************************)
(* The routing key, on the statements of SpecExec.                         *)
(***************************************************************************)
\* the WHERE clause names a primary-key column, and never in an equality
OnlyInequality(stmt) ==
    \E col \in PrimaryKeyCols :
        /\ \E i \in DOMAIN stmt.where : stmt.where[i].col = col
        /\ \A i \in DOMAIN stmt.where : stmt.where[i].col = col => stmt.where[i].op # "="

HasWhere(stmt) == stmt.op \in {"SELECT", "UPDATE", "DELETE"}

\* C35: a SELECT, UPDATE or DELETE whose WHERE clause names a primary-key column in
\* comparisons other than equalities only is answered with ERROR(Invalid) "Primary
\* key columns not provided" and is not routed by the value of such a comparison
C35_RoutedByEqualityOnly ==
    (exe.last.had_table /\ HasWhere(exe.last.stmt) /\ OnlyInequality(exe.last.stmt)) =>
        /\ exe.last.kind = "ERROR" /\ exe.last.code = "Invalid"
        /\ exe.last.dispatch = {}

\* C35, for a WHERE clause of one equality on each primary-key column: the statement
\* is routed by the value its equality gives the partition key
C35_EqualityOnEachKey ==
    (/\ exe.last.had_table /\ HasWhere(exe.last.stmt)
     /\ Len(exe.last.stmt.where) = 2
     /\ \A i \in {1, 2} : exe.last.stmt.where[i].op = "="
     /\ {exe.last.stmt.where[i].col : i \in {1, 2}} = PrimaryKeyCols) =>
        /\ exe.last.dispatch # {}
        /\ \E i \in {1, 2} :
              /\ exe.last.stmt.where[i].col \in PartitionKey
              /\ exe.last.route = exe.last.stmt.where[i].val

(***************************************************************************)
(* One exchange of SpecGossip.  In every start configuration one of two    *)
(* nodes has all the other nodes in its table, so the identities two nodes *)
(* know between them are all the nodes.                                    *)
(***************************************************************************)
\* the first tick of the cluster was n's, it has ended, and q alone has answered it
ExchangeDone(n, q) ==
    /\ n # q
    /\ TotalTicks = 1 /\ self_hb[n] = 1
    /\ \A r \in Nodes : probe[n][r].pc = "idle"
    /\ \A r \in Nodes : handler[r][n].pc = "idle"
    /\ \A m \in syns : m.sender # n
    /\ {r \in Nodes : peers[n][r].alive} = {q}
    /\ peers[n][q].last_heartbeat = self_hb[q]

RouteNode(ip, port, range) == [ip_address |-> ip, port |-> port, token_range |-> range]

\* three nodes, the first two on one host with different ports
SharedHostConfig ==
    [i \in Nodes |->
        RouteNode(IF i = 1 THEN 2 ELSE i,
                  IF i = 1 THEN 9044 ELSE 9042,
                  SegmentsFrom(MinToken, {0, MaxToken})[i])]

\* a ring of two nodes
TwoNodeConfig ==
    [i \in 1..2 |-> Node(i, SegmentsFrom(MinToken, {0})[i])]

RouteConfigs == { ClusterConfig, SharedHostConfig, TwoNodeConfig, FourNodeConfig }

IdleRoute ==
    [pc |-> "idle", coord |-> 0, nodes |-> <<>>, idx |-> 0, bad |-> {},
     local |-> 0, acks |-> 0, hinted |-> <<>>, unreachable |-> {},
     contacted |-> {}, failed_at |-> 0, answer |-> "",
     frames |-> [j \in 1..Len(config) |-> 0],
     executed |-> [j \in 1..Len(config) |-> 0]]

RouteInit ==
    /\ config \in RouteConfigs
    /\ hashOf \in [Keys -> Tokens]
    /\ key = "k1"
    /\ lookup = <<>>
    /\ rt = IdleRoute
    /\ GossipIdle /\ ClusterIdle
    /\ fs = <<>> /\ locks = <<>> /\ thr = <<>> /\ oplog = <<>>
    /\ csv = <<>> /\ tmpcsv = {} /\ tally = <<>> /\ outcome = ""
    /\ conn = <<>> /\ lvl = <<>> /\ gtp = <<>>
    /\ hdir = <<>> /\ exe = <<>> /\ ddl = <<>> /\ lk = <<>> /\ rp = <<>>

routeRest == <<earlierVars, hdir, exe, ddl, lk, rp>>

\* the Partitioner of the node process c
RoutePartitioner == read_config(config, config[rt.coord].ip_address)

\* the node process that accepts a connection to (ip_address, port + 1) of node
Listener(node) ==
    CHOOSE j \in 1..Len(config) :
        config[j].ip_address = node.ip_address /\ config[j].port = node.port

\* a handler that answered ERROR and undid what the loop had done
rollback(r) ==
    [r EXCEPT !.pc = "done", !.answer = "ERROR", !.hinted = <<>>,
              !.executed = [j \in DOMAIN r.executed |-> 0]]

\* the ERROR frame is written to the client and the handler returns
ErrorReturn(r) == [r EXCEPT !.pc = "done", !.answer = "ERROR"]

\* a client sends a write to node process c: get_nodes(&key[0]); the tables of
\* the nodes in bad reject the write (Query::process returns Err)
RouteWrite(c, bad) ==
    /\ rt.pc = "idle"
    /\ rt' = [rt EXCEPT !.pc = "loop", !.coord = c, !.idx = 1, !.bad = bad,
                        !.nodes = get_nodes(read_config(config, config[c].ip_address),
                                            key).nodes]
    /\ UNCHANGED routeRest

\* partitioner.is_me(node): query.process under ctx.write()
RouteLocal ==
    /\ rt.pc = "loop" /\ rt.idx <= Len(rt.nodes)
    /\ is_me(RoutePartitioner, rt.nodes[rt.idx])
    /\ rt.coord \notin rt.bad
    /\ rt' = [rt EXCEPT !.idx = @ + 1, !.local = @ + 1, !.acks = @ + 1,
                        !.contacted = @ \cup {rt.idx},
                        !.executed[rt.coord] = @ + 1]
    /\ UNCHANGED routeRest

\* partitioner.is_me(node) and res.is_err(): the ERROR frame and return
RouteLocalFails ==
    /\ rt.pc = "loop" /\ rt.idx <= Len(rt.nodes)
    /\ is_me(RoutePartitioner, rt.nodes[rt.idx])
    /\ rt.coord \in rt.bad
    /\ rt' = ErrorReturn([rt EXCEPT !.contacted = @ \cup {rt.idx},
                                    !.failed_at = rt.idx])
    /\ UNCHANGED routeRest

\* TcpStream::connect fails: add_hint for the ip_address of the replica
RouteConnectFails ==
    /\ rt.pc = "loop" /\ rt.idx <= Len(rt.nodes)
    /\ ~is_me(RoutePartitioner, rt.nodes[rt.idx])
    /\ rt' = [rt EXCEPT !.idx = @ + 1,
                        !.contacted = @ \cup {rt.idx},
                        !.unreachable = @ \cup {rt.idx},
                        !.hinted = Append(@, rt.nodes[rt.idx].ip_address)]
    /\ UNCHANGED routeRest

\* connect to (ip_address, port + 1), send the Query frame, read the Result:
\* the node that accepts it processes the query (node.rs)
RouteForward ==
    /\ rt.pc = "loop" /\ rt.idx <= Len(rt.nodes)
    /\ ~is_me(RoutePartitioner, rt.nodes[rt.idx])
    /\ LET j == Listener(rt.nodes[rt.idx])
       IN  /\ j \notin rt.bad
           /\ rt' = [rt EXCEPT !.idx = @ + 1, !.acks = @ + 1,
                               !.contacted = @ \cup {rt.idx},
                               !.frames[j] = @ + 1,
                               !.executed[j] = @ + 1]
    /\ UNCHANGED routeRest

\* the replica's process(..).unwrap() panics (node.rs) and its connection closes:
\* read_inc_frame(..).unwrap() panics in the coordinator's handler
RouteForwardFails ==
    /\ rt.pc = "loop" /\ rt.idx <= Len(rt.nodes)
    /\ ~is_me(RoutePartitioner, rt.nodes[rt.idx])
    /\ LET j == Listener(rt.nodes[rt.idx])
       IN  /\ j \in rt.bad
           /\ rt' = [rt EXCEPT !.pc = "done", !.answer = "PANIC",
                               !.contacted = @ \cup {rt.idx},
                               !.frames[j] = @ + 1]
    /\ UNCHANGED routeRest

\* the loop has ended: the consistency check, then ERROR or RESULT
RouteRespond(cl) ==
    /\ rt.pc = "loop" /\ rt.idx > Len(rt.nodes)
    /\ rt' = IF NotEnoughNodes(rt.acks, cl)
             THEN ErrorReturn(rt)
             ELSE [rt EXCEPT !.pc = "done", !.answer = "RESULT"]
    /\ UNCHANGED routeRest

RouteNext ==
    \/ \E c \in 1..Len(config) : \E bad \in SUBSET (1..Len(config)) : RouteWrite(c, bad)
    \/ RouteLocal
    \/ RouteLocalFails
    \/ RouteConnectFails
    \/ RouteForward
    \/ RouteForwardFails
    \/ \E cl \in ConsistencyLevels : RouteRespond(cl)

SpecRoute == RouteInit /\ [][RouteNext]_vars

\* the node processes that are replicas of the key
Replicas == { j \in 1..Len(config) : \E i \in DOMAIN rt.nodes : rt.nodes[i] = config[j] }

\* each replica has executed the write once, the coordinator locally and the
\* others from one Query frame, and no other node has executed it
ExactlyOnce ==
    /\ rt.local = (IF rt.coord \in Replicas THEN 1 ELSE 0)
    /\ \A j \in 1..Len(config) :
          /\ rt.executed[j] = (IF j \in Replicas THEN 1 ELSE 0)
          /\ rt.frames[j] = (IF j \in Replicas /\ j # rt.coord THEN 1 ELSE 0)

\* every replica was reached and none rejected the write
AllReached == rt.unreachable = {} /\ rt.bad = {}

\* C37: a client write with every replica reachable is executed exactly once on each
\* replica, locally on the coordinator if and only if the coordinator is that replica
\* (same ip and port) and through exactly one forwarded Query frame otherwise; no
\* node executes it more than once
C37_ExactlyOncePerReplica == rt.pc = "done" /\ AllReached => ExactlyOnce

\* at least ReplicationFactor nodes, each on an ip_address of its own
DistinctHosts ==
    /\ Len(config) >= ReplicationFactor
    /\ \A i, j \in 1..Len(config) : i # j => config[i].ip_address # config[j].ip_address

\* on a ring of three or more nodes with different addresses the write is executed
\* exactly once on each replica
C37_OnDistinctHosts == rt.pc = "done" /\ AllReached /\ DistinctHosts => ExactlyOnce

\* C38: a write answered with ERROR, after the consistency check or after a failed
\* local execution, is not rolled back: the replicas that executed it keep its
\* effect, the hints recorded stay recorded, and the replicas that follow a failed
\* local execution in the replica list are never contacted
C38_NoRollback ==
    /\ [][rt'.answer = "ERROR" /\ rt.answer # "ERROR" =>
            /\ rt'.executed = rt.executed
            /\ rt'.frames = rt.frames
            /\ rt'.hinted = rt.hinted]_vars
    /\ [](rt.answer = "ERROR" /\ rt.failed_at > 0 =>
            rt.contacted = 1..rt.failed_at)

\* the first replica executed the write, the coordinator's own execution failed at
\* the second list entry, and ERROR was answered
C38_Witness ==
    /\ rt.answer = "ERROR" /\ rt.failed_at = 2
    /\ Len(rt.nodes) = ReplicationFactor
    /\ rt.executed[Listener(rt.nodes[1])] = 1

(***************************************************************************)
(* C39: for every combination of replica responses to a SELECT (different  *)
(* numbers of rows, replicas without rows, replicas that did not respond)  *)
(* reconciliation and the read repair that follows complete without        *)
(* failure: no row index past the length of a response is used and no      *)
(* missing response is dereferenced.  On the answers of SpecCluster: a     *)
(* PANIC that carries a level is the panic of compare_responses, and       *)
(* repair = "panic" that of handle_read_repair.                            *)
(***************************************************************************)
C39_ReconciliationCompletes ==
    resp.op = "SELECT" =>
        /\ ~(resp.kind = "PANIC" /\ resp.cl # "")
        /\ resp.repair # "panic"

\* reconciliation alone: compare_responses returns for every SELECT
C39_CompareCompletes ==
    resp.op = "SELECT" => ~(resp.kind = "PANIC" /\ resp.cl # "")

\* the read repair alone: handle_read_repair returns for every SELECT
C39_RepairCompletes ==
    resp.op = "SELECT" => resp.repair # "panic"

(***************************************************************************)
(* The hints file of one peer at one node, and the two threads that flush  *)
(* it once they have seen the peer alive: the gossip_to_peer thread of the *)
(* tick, with the address of the peer table, and the handle_gossip thread  *)
(* of the peer's SYN, with ip:port of the SYN.  A hint is the number of    *)
(* the write it was recorded for.  Nothing but the file system orders the  *)
(* steps of handle_hinted_handoff of two threads.                          *)
(***************************************************************************)
\* the number of writes hinted for the peer in a run
MaxReplayHints == 2

ReplayHints == 1..MaxReplayHints

Flushers == {"probe", "handler"}

IdleFlusher == [pc |-> "idle", queries |-> <<>>]

ReplayInit ==
    /\ rp = [file |-> None,
             next |-> 1,
             thr |-> [f \in Flushers |-> IdleFlusher],
             sent |-> [h \in ReplayHints |-> 0],
             applied |-> [h \in ReplayHints |-> 0],
             panics |-> 0]
    /\ hdir = <<>> /\ exe = <<>> /\ ddl = <<>> /\ lk = <<>> /\ rt = <<>>
    /\ EarlierIdle

replayRest == <<earlierVars, hdir, exe, ddl, lk, rt>>

\* the hints a frame of these queries carries
Carried(queries) == { queries[i] : i \in DOMAIN queries }

\* hinted.rs add_hint: the line is appended, the file created if missing
ReplayAddHint ==
    /\ rp.next <= MaxReplayHints
    /\ rp' = [rp EXCEPT !.file = Some((IF @ = None THEN <<>> ELSE Unwrap(@)) \o <<rp.next>>),
                        !.next = @ + 1]
    /\ UNCHANGED replayRest

\* if has_hints(node_dir, peer) { handle_hinted_handoff(..) }
ReplayHasHints(f) ==
    /\ rp.thr[f].pc = "idle"
    /\ rp.file # None
    /\ rp' = [rp EXCEPT !.thr[f].pc = "exists"]
    /\ UNCHANGED replayRest

\* if !node_hints.exists() { return; }
ReplayExists(f) ==
    /\ rp.thr[f].pc = "exists"
    /\ rp' = [rp EXCEPT !.thr[f] = IF rp.file = None THEN IdleFlusher
                                   ELSE [pc |-> "open", queries |-> <<>>]]
    /\ UNCHANGED replayRest

\* File::open(&node_hints).unwrap() and the lines of the file
ReplayRead(f) ==
    /\ rp.thr[f].pc = "open"
    /\ rp' = IF rp.file = None
             THEN [rp EXCEPT !.thr[f] = IdleFlusher, !.panics = 1]
             ELSE [rp EXCEPT !.thr[f] = [pc |-> "send", queries |-> Unwrap(rp.file)]]
    /\ UNCHANGED replayRest

\* TcpStream::connect(peer_addr).unwrap() and send_message of the Hinted frame: a
\* failure leaves the file; the peer processes the frame it accepts on its
\* internode listener (node.rs), which is where the probe's address leads
ReplaySend(f, ok) ==
    /\ rp.thr[f].pc = "send"
    /\ rp' = IF ok
             THEN [rp EXCEPT !.thr[f].pc = "remove",
                             !.sent = [h \in ReplayHints |->
                                         IF h \in Carried(rp.thr[f].queries)
                                         THEN @[h] + 1 ELSE @[h]],
                             !.applied = [h \in ReplayHints |->
                                         IF f = "probe" /\ h \in Carried(rp.thr[f].queries)
                                         THEN @[h] + 1 ELSE @[h]]]
             ELSE [rp EXCEPT !.thr[f] = IdleFlusher]
    /\ UNCHANGED replayRest

\* std::fs::remove_file(node_hints).unwrap()
ReplayRemove(f) ==
    /\ rp.thr[f].pc = "remove"
    /\ rp' = IF rp.file = None
             THEN [rp EXCEPT !.thr[f] = IdleFlusher, !.panics = 1]
             ELSE [rp EXCEPT !.thr[f] = IdleFlusher, !.file = None]
    /\ UNCHANGED replayRest

ReplayNext ==
    \/ ReplayAddHint
    \/ \E f \in Flushers : ReplayHasHints(f)
    \/ \E f \in Flushers : ReplayExists(f)
    \/ \E f \in Flushers : ReplayRead(f)
    \/ \E f \in Flushers : \E ok \in BOOLEAN : ReplaySend(f, ok)
    \/ \E f \in Flushers : ReplayRemove(f)

SpecReplay == ReplayInit /\ [][ReplayNext]_vars

\* C40: each recorded hint is replayed to its peer at most once, even when the
\* gossip probe thread and a SYN handler thread see the peer alive at the same
\* time and both start a flush of its hints file
C40_ReplayedAtMostOnce == \A h \in ReplayHints : rp.sent[h] <= 1

\* a hint is processed by the peer at most once
C40_AppliedAtMostOnce == \A h \in ReplayHints : rp.applied[h] <= 1

\* a hint is never sent more often than there are threads that flush
C40_OncePerFlusher == \A h \in ReplayHints : rp.sent[h] <= Cardinality(Flushers)

====
